---- MODULE Spec2Model ----
(***************************************************************************)
(* A model of the shared search and grid library (common/src/alg.rs and    *)
(* common/src/grid.rs): the best-first search engine (dijkstra, a_star),   *)
(* the point / bounds algebra, the grid container and its shortest-path    *)
(* adapter.                                                                *)
(*                                                                         *)
(* Conventions.  Option<T> is a sequence of length at most one: None is    *)
(* <<>> and Some(v) is <<v>>.  A Vec is a sequence; Rust's index i is the  *)
(* sequence's index i+1.  A HashMap is a function whose domain is the set  *)
(* of keys inserted so far.  A BinaryHeap is a bag of its entries; pop     *)
(* removes any entry that is greatest under the entry's Ord.               *)
(***************************************************************************)
EXTENDS Integers, Sequences, FiniteSets, Bags, TLC

VARIABLES
    problem,          \* the caller's arguments of the search call
    pc,               \* where the calls are: "idle", "dijkstra",
                      \* "dijkstra_returned", "a_star", "done", "panicked"
    heap,             \* the running call's BinaryHeap
    cache,            \* the running call's FnvHashMap<CacheKey, Score>
    popped,           \* history: the states the running call has popped, in order
    expanded,         \* history: the popped states whose successors were enumerated
    dijkstra_result,  \* Option<TState> returned by dijkstra (<<>> until it returned)
    previous_result,  \* Some(result) of an earlier dijkstra call on this problem
    a_star_result,    \* Option<TState> returned by a_star
    heuristic,        \* the h argument of the a_star call (<<>> before the call)
    overflow_checks,  \* the build: TRUE panics on integer overflow, FALSE wraps
    source,           \* the rows a grid was built from
    grid,             \* the Grid2D: [data, bounds]
    op,               \* the last call of the point / bounds / grid API, with its arguments
    out               \* what that call returned

search_vars == <<problem, pc, heap, cache, popped, expanded, dijkstra_result,
                 previous_result, a_star_result, heuristic>>
grid_vars == <<overflow_checks, source, grid>>
call_vars == <<op, out>>
vars == <<search_vars, grid_vars, call_vars>>

----------------------------------------------------------------------------
(* Bounds of the model. *)

NumKeys == 3      \* cache keys of a graph problem are 1..NumKeys
MaxCost == 2      \* edge costs are 0..MaxCost
MaxHeur == 2      \* heuristic values are 0..MaxHeur
MaxWidth == 3     \* a source row has at most MaxWidth cells
MaxHeight == 2    \* a source has at most MaxHeight rows

\* Integer widths, scaled down: usize has UsizeBits bits, i32 has I32Bits bits
\* (fewer than usize, as 32 is fewer than 64), a cell's type T has CellBits.
UsizeBits == 5
I32Bits == 4
CellBits == 3

MaxBuilt == 2     \* a constructor is given at most MaxBuilt rows of at most MaxBuilt cells
MaxSide == 3      \* a grid is not grown beyond MaxSide columns or rows
MaxCells == 6     \* nor beyond MaxCells cells
MaxSaturated == 1 \* a source that shortest_path searches has at most MaxSaturated cells of T::MAX

----------------------------------------------------------------------------
(* Option<T> *)

None == <<>>
Some(v) == <<v>>
IsSome(o) == o # <<>>
Unwrap(o) == o[1]

Min(S) == CHOOSE m \in S : \A n \in S : m <= n

----------------------------------------------------------------------------
(* Machine integers *)

UsizeMax == 2^UsizeBits - 1
I32Max == 2^(I32Bits - 1) - 1
I32Min == -(2^(I32Bits - 1))
CellMax == 2^CellBits - 1

\* `v as i32`, and what a wrapping i32 operation leaves of the exact result v
AsI32(v) ==
    LET m == v % (2^I32Bits) IN IF m > I32Max THEN m - 2^I32Bits ELSE m

I32Fits(v) == I32Min <= v /\ v <= I32Max

\* what a wrapping usize operation leaves of the exact result v
AsUsize(v) == v % (2^UsizeBits)
UsizeFits(v) == 0 <= v /\ v <= UsizeMax

\* what a wrapping operation on T leaves of the exact result v
AsCell(v) == v % (2^CellBits)
CellFits(v) == 0 <= v /\ v <= CellMax

----------------------------------------------------------------------------
(* What a call leaves behind.  An iterator is lazy: it yields items and may *)
(* panic while producing the next one.                                     *)

Yielded(items) == [items |-> items, panicked |-> FALSE]
YieldedThenPanic(items) == [items |-> items, panicked |-> TRUE]
Returned(v) == [value |-> Some(v), panicked |-> FALSE]
Panicked == [value |-> None, panicked |-> TRUE]

\* an item in front of what the rest of the iterator does
Cons(item, rest) == [rest EXCEPT !.items = <<item>> \o @]

----------------------------------------------------------------------------
(* Point2D and Bounds2D, grid.rs 22-322 *)

\* grid.rs 29-31
pt(x, y) == [x |-> x, y |-> y]

ORIGIN == pt(0, 0)

Bounds2D(w, h) == [width |-> w, height |-> h]

\* grid.rs 319-321
contains(b, p) == p.x < b.width /\ p.y < b.height

\* grid.rs 84-98: map, filter, map over the deltas, one item at a time
RECURSIVE bounded_relatives(_, _, _)
bounded_relatives(p, bounds, deltas) ==
    IF deltas = <<>> THEN Yielded(<<>>)
    ELSE LET x == AsI32(p.x)
             y == AsI32(p.y)
             width == AsI32(bounds.width)
             height == AsI32(bounds.height)
             nx == x + Head(deltas)[1]
             ny == y + Head(deltas)[2]
         IN  IF ~(I32Fits(nx) /\ I32Fits(ny)) /\ overflow_checks
             THEN YieldedThenPanic(<<>>)
             ELSE LET wx == AsI32(nx)
                      wy == AsI32(ny)
                  IN  IF wx >= 0 /\ wx < width /\ wy >= 0 /\ wy < height
                      THEN Cons(pt(wx, wy),
                                bounded_relatives(p, bounds, Tail(deltas)))
                      ELSE bounded_relatives(p, bounds, Tail(deltas))

\* grid.rs 100-102
cardinal_neighbors(p, bounds) ==
    bounded_relatives(p, bounds, <<<<-1, 0>>, <<1, 0>>, <<0, -1>>, <<0, 1>>>>)

\* 0..n as the sequence a range iterates
Range(n) == [i \in 1..n |-> i - 1]

\* itertools' cartesian_product of two sequences: the first is the outer loop
RECURSIVE cartesian_product(_, _)
cartesian_product(outer, inner) ==
    IF outer = <<>> THEN <<>>
    ELSE [i \in 1..Len(inner) |-> <<Head(outer), inner[i]>>]
         \o cartesian_product(Tail(outer), inner)

\* variant: the pair taken as (x, y)
iter_horizontal_unswapped(b) ==
    LET pairs == cartesian_product(Range(b.height), Range(b.width))
    IN  [i \in 1..Len(pairs) |-> pt(pairs[i][1], pairs[i][2])]

\* grid.rs 284-288
iter_horizontal(b) ==
    LET pairs == cartesian_product(Range(b.height), Range(b.width))
    IN  [i \in 1..Len(pairs) |-> pt(pairs[i][2], pairs[i][1])]

\* variant: the rows as the outer loop
iter_vertical_rows_outer(b) ==
    LET pairs == cartesian_product(Range(b.height), Range(b.width))
    IN  [i \in 1..Len(pairs) |-> pt(pairs[i][2], pairs[i][1])]

\* grid.rs 278-282
iter_vertical(b) ==
    LET pairs == cartesian_product(Range(b.width), Range(b.height))
    IN  [i \in 1..Len(pairs) |-> pt(pairs[i][1], pairs[i][2])]

\* grid.rs 297-299: the exact coordinates, and what the build makes of them
bottom_right_overflows(b) == b.width = 0 \/ b.height = 0
bottom_right(b) == pt(AsUsize(b.width - 1), AsUsize(b.height - 1))

----------------------------------------------------------------------------
(* Grid2D, grid.rs 346-613 *)

\* grid.rs 353-364, for data that has a first row
Grid2DNew(data) ==
    [data |-> data,
     bounds |-> Bounds2D(Len(data[1]), Len(data))]

\* Vec's index: data[y][x] exists
DataHas(g, p) ==
    p.y + 1 \in DOMAIN g.data /\ p.x + 1 \in DOMAIN g.data[p.y + 1]

\* self.data[pt.y][pt.x]
DataAt(g, p) == g.data[p.y + 1][p.x + 1]

\* grid.rs 585-603
GridIndex(g, p) ==
    IF p.x >= g.bounds.width \/ p.y >= g.bounds.height THEN Panicked
    ELSE IF DataHas(g, p) THEN Returned(DataAt(g, p))
    ELSE Panicked

\* .map(|pt| (pt, &self.data[pt.y][pt.x])) over the points an iterator yields
\* before it ends (or panics, with ends_in_panic)
RECURSIVE WithCellsFrom(_, _, _)
WithCellsFrom(g, points, ends_in_panic) ==
    IF points = <<>> THEN [items |-> <<>>, panicked |-> ends_in_panic]
    ELSE IF ~DataHas(g, Head(points)) THEN YieldedThenPanic(<<>>)
    ELSE Cons(<<Head(points), DataAt(g, Head(points))>>,
              WithCellsFrom(g, Tail(points), ends_in_panic))

WithCells(g, it) == WithCellsFrom(g, it.items, it.panicked)

\* grid.rs 384-388
GridIterVertical(g) == WithCells(g, Yielded(iter_vertical(g.bounds)))

\* grid.rs 390-394
GridIterHorizontal(g) == WithCells(g, Yielded(iter_horizontal(g.bounds)))

\* grid.rs 396-399
GridCardinalNeighbors(g, p) == WithCells(g, cardinal_neighbors(p, g.bounds))

----------------------------------------------------------------------------
(* shortest_path's arguments to dijkstra, grid.rs 480-523 *)

ShortestPathState(d, p) == [distance |-> d, pt |-> p]

\* grid.rs 514-517: distance + *dist_there for each neighbour, as the build adds
RECURSIVE ShortestPathMap(_, _, _)
ShortestPathMap(s, neighbors, ends_in_panic) ==
    IF neighbors = <<>> THEN [items |-> <<>>, panicked |-> ends_in_panic]
    ELSE IF ~CellFits(s.distance + Head(neighbors)[2]) /\ overflow_checks
    THEN YieldedThenPanic(<<>>)
    ELSE Cons(ShortestPathState(AsCell(s.distance + Head(neighbors)[2]),
                                Head(neighbors)[1]),
              ShortestPathMap(s, Tail(neighbors), ends_in_panic))

\* grid.rs 512-518
ShortestPathNext(s) ==
    LET it == GridCardinalNeighbors(grid, s.pt)
    IN  ShortestPathMap(s, it.items, it.panicked)

\* grid.rs 519
ShortestPathFinal(s) == s.pt = bottom_right(grid.bounds)
ShortestPathFinalPanics == bottom_right_overflows(grid.bounds) /\ overflow_checks

----------------------------------------------------------------------------
(* The caller's side of a graph problem: states are (key, cost) pairs, the  *)
(* successor function follows the weighted edges out of the state's key in *)
(* key order and adds the edge's cost, the final predicate reads the key.  *)

Keys == 1..NumKeys
EdgeCost == {None} \cup {Some(c) : c \in 0..MaxCost}
Edges == {e \in Keys \X Keys : e[1] # e[2]}
GraphProblems ==
    [kind : {"graph"}, w : [Edges -> EdgeCost], finals : SUBSET Keys]

State(k, c) == [key |-> k, cost |-> c]

\* OptimizationState::cache_key (grid.rs 492-494 for a ShortestPathState)
cache_key(s) == IF "pt" \in DOMAIN s THEN s.pt ELSE s.key

\* OptimizationState::score, a Reverse<T> (grid.rs 496-498): represented by the
\* cost it wraps
score(s) == IF "pt" \in DOMAIN s THEN s.distance ELSE s.cost

\* Ord for Reverse<T>: Reverse(a) < Reverse(b) iff b < a
ReverseLt(a, b) == b < a
ReverseLe(a, b) == b <= a

RECURSIVE GraphSuccessors(_, _, _)
GraphSuccessors(p, s, k) ==
    IF k > NumKeys THEN <<>>
    ELSE IF k # s.key /\ IsSome(p.w[<<s.key, k>>])
         THEN <<State(k, s.cost + Unwrap(p.w[<<s.key, k>>]))>>
              \o GraphSuccessors(p, s, k + 1)
         ELSE GraphSuccessors(p, s, k + 1)

\* the start_state argument (grid.rs 508-511 for a grid)
StartState(p) ==
    IF p.kind = "grid" THEN ShortestPathState(0, ORIGIN) ELSE State(1, 0)

\* the next argument: what iterating the successors of a state does
next(p, s) ==
    IF p.kind = "grid" THEN ShortestPathNext(s)
    ELSE Yielded(GraphSuccessors(p, s, 1))

\* the final_predicate argument, and whether evaluating it panics
final_predicate(p, s) ==
    IF p.kind = "grid" THEN ShortestPathFinal(s) ELSE s.key \in p.finals
final_predicate_panics(p) ==
    IF p.kind = "grid" THEN ShortestPathFinalPanics ELSE FALSE

----------------------------------------------------------------------------
(* BinaryHeap<OptimizationStateWrapper<TState>> *)

\* variant: the comparison the other way round
WrapperLtFlipped(a, b) == ReverseLt(score(b), score(a))

\* Ord for OptimizationStateWrapper: a < b iff a.score() < b.score()
WrapperLt(a, b) == ReverseLt(score(a), score(b))

\* variant: pop returns whichever entry
IsAnyEntry(e, h) == TRUE

\* BinaryHeap::pop returns an entry no other entry is greater than
IsGreatest(e, h) == \A o \in BagToSet(h) : ~WrapperLt(e, o)

HeapPush(h, e) == h (+) SetToBag({e})
HeapRemove(h, e) == h (-) SetToBag({e})

(* HashMap *)
CacheHas(c, k) == k \in DOMAIN c
CacheInsert(c, k, v) == (k :> v) @@ c

----------------------------------------------------------------------------
(* dijkstra, alg.rs 54-95 *)

\* variant: every successor is pushed
DijkstraKeepsOutNever(c, n) == FALSE

\* variant: < for <=, a successor as good as the recorded one is pushed too
DijkstraKeepsOutStrict(c, n) ==
    CacheHas(c, cache_key(n)) /\ ReverseLt(score(n), c[cache_key(n)])

\* lines 84-85: the successor is not pushed
DijkstraKeepsOut(c, n) ==
    CacheHas(c, cache_key(n)) /\ ReverseLe(score(n), c[cache_key(n)])

\* the successor loop, lines 81-91: st is [cache, heap], succs what is left
\* of the iterator

RECURSIVE DijkstraPushAll(_, _)
DijkstraPushAll(st, succs) ==
    IF succs = <<>> THEN st
    ELSE LET n == Head(succs) IN
         IF DijkstraKeepsOut(st.cache, n)
         THEN DijkstraPushAll(st, Tail(succs))
         ELSE DijkstraPushAll(
                  [cache |-> CacheInsert(st.cache, cache_key(n), score(n)),
                   heap  |-> HeapPush(st.heap, n)],
                  Tail(succs))

\* variant: no popped state is taken for superseded
DijkstraStaleNever(c, s) == FALSE

\* variant: <= for <
DijkstraStaleOrEqual(c, s) ==
    CacheHas(c, cache_key(s)) /\ ReverseLe(score(s), c[cache_key(s)])

\* lines 74-79: the popped state is a superseded duplicate
DijkstraStale(c, s) ==
    CacheHas(c, cache_key(s)) /\ ReverseLt(score(s), c[cache_key(s)])

\* the histories are kept for graph problems only
Log(history, s) == IF problem.kind = "graph" THEN Append(history, s) ELSE history

\* line 69 fails to pop: line 94
DijkstraDrained ==
    /\ pc = "dijkstra"
    /\ heap = EmptyBag
    /\ dijkstra_result' = None
    /\ pc' = "dijkstra_returned"
    /\ UNCHANGED <<problem, heap, cache, popped, expanded, previous_result,
                   a_star_result, heuristic, grid_vars, call_vars>>

\* lines 69-72: pop, the state is final
DijkstraReturn ==
    /\ pc = "dijkstra"
    /\ ~final_predicate_panics(problem)
    /\ \E s \in BagToSet(heap) :
        /\ IsGreatest(s, heap)
        /\ final_predicate(problem, s)
        /\ heap' = HeapRemove(heap, s)
        /\ popped' = Log(popped, s)
        /\ dijkstra_result' = Some(s)
    /\ pc' = "dijkstra_returned"
    /\ UNCHANGED <<problem, cache, expanded, previous_result, a_star_result, heuristic, grid_vars, call_vars>>

\* lines 69-77: pop, the state is not final and superseded
DijkstraSkip ==
    /\ pc = "dijkstra"
    /\ ~final_predicate_panics(problem)
    /\ \E s \in BagToSet(heap) :
        /\ IsGreatest(s, heap)
        /\ ~final_predicate(problem, s)
        /\ DijkstraStale(cache, s)
        /\ heap' = HeapRemove(heap, s)
        /\ popped' = Log(popped, s)
    /\ UNCHANGED <<problem, pc, cache, expanded, dijkstra_result, previous_result,
                   a_star_result, heuristic, grid_vars, call_vars>>

\* lines 69-91: pop, the state is not final and not superseded: expand it
DijkstraExpand ==
    /\ pc = "dijkstra"
    /\ ~final_predicate_panics(problem)
    /\ \E s \in BagToSet(heap) :
        /\ IsGreatest(s, heap)
        /\ ~final_predicate(problem, s)
        /\ ~DijkstraStale(cache, s)
        /\ ~next(problem, s).panicked
        /\ LET st == DijkstraPushAll([cache |-> cache, heap |-> HeapRemove(heap, s)],
                                     next(problem, s).items)
           IN  /\ heap' = st.heap
               /\ cache' = st.cache
        /\ popped' = Log(popped, s)
        /\ expanded' = Log(expanded, s)
    /\ UNCHANGED <<problem, pc, dijkstra_result, previous_result, a_star_result,
                   heuristic, grid_vars, call_vars>>

\* lines 69-81: pop, and the caller's final_predicate or next panics: the call
\* unwinds
DijkstraPanic ==
    /\ pc = "dijkstra"
    /\ \E s \in BagToSet(heap) :
        /\ IsGreatest(s, heap)
        /\ \/ final_predicate_panics(problem)
           \/ /\ ~final_predicate(problem, s)
              /\ ~DijkstraStale(cache, s)
              /\ next(problem, s).panicked
        /\ popped' = Log(popped, s)
    /\ pc' = "panicked"
    /\ heap' = EmptyBag
    /\ cache' = <<>>
    /\ UNCHANGED <<problem, expanded, dijkstra_result, previous_result, a_star_result,
                   heuristic, grid_vars, call_vars>>

\* lines 65-67, called once more with the same arguments: the first call's
\* result is kept aside
DijkstraCall ==
    /\ pc = "dijkstra_returned"
    /\ previous_result = None
    /\ previous_result' = Some(dijkstra_result)
    /\ dijkstra_result' = None
    /\ heap' = SetToBag({StartState(problem)})
    /\ cache' = <<>>
    /\ popped' = <<>>
    /\ expanded' = <<>>
    /\ pc' = "dijkstra"
    /\ UNCHANGED <<problem, a_star_result, heuristic, grid_vars, call_vars>>

----------------------------------------------------------------------------
(* a_star, alg.rs 157-217 *)

AStarEntry(s, hv) == [state |-> s, heuristic |-> hv]

\* variant: the stored heuristic is left out of the comparison
AStarLtRaw(a, b) == score(b.state) < score(a.state)

\* Ord for AStarStateWrapper, lines 134-139: compared in reverse
AStarLt(a, b) ==
    (score(b.state) + b.heuristic) < (score(a.state) + a.heuristic)

AStarIsGreatest(e, h) == \A o \in BagToSet(h) : ~AStarLt(e, o)

\* the h argument, a function of the state
h(s) == heuristic[1][cache_key(s)]

\* variant: dijkstra's comparison, not swapped
AStarKeepsOutUnswapped(c, n) ==
    CacheHas(c, cache_key(n)) /\ score(n) <= c[cache_key(n)]

\* lines 200-203
AStarKeepsOut(c, n) ==
    CacheHas(c, cache_key(n)) /\ score(n) >= c[cache_key(n)]

RECURSIVE AStarPushAll(_, _)
AStarPushAll(st, succs) ==
    IF succs = <<>> THEN st
    ELSE LET n == Head(succs) IN
         IF AStarKeepsOut(st.cache, n)
         THEN AStarPushAll(st, Tail(succs))
         ELSE AStarPushAll(
                  [cache |-> CacheInsert(st.cache, cache_key(n), score(n)),
                   heap  |-> HeapPush(st.heap, AStarEntry(n, h(n)))],
                  Tail(succs))

\* lines 188-195
AStarStale(c, s) ==
    CacheHas(c, cache_key(s)) /\ score(s) > c[cache_key(s)]

\* the glossary's consistency: h(s) <= cost(s, s') + h(s') for every edge
EdgeConsistent(p, hf) ==
    \A e \in Edges :
        IsSome(p.w[e]) => hf[e[1]] <= Unwrap(p.w[e]) + hf[e[2]]

Heuristics == [Keys -> 0..MaxHeur]

\* lines 172-177: the call, with a heuristic the caller chose
AStarCall ==
    /\ pc = "dijkstra_returned"
    /\ \E hf \in Heuristics :
        /\ EdgeConsistent(problem, hf)
        /\ heuristic' = Some(hf)
    /\ heap' = SetToBag({AStarEntry(StartState(problem), 0)})
    /\ cache' = <<>>
    /\ popped' = <<>>
    /\ expanded' = <<>>
    /\ pc' = "a_star"
    /\ previous_result' = None
    /\ UNCHANGED <<problem, dijkstra_result, a_star_result, grid_vars, call_vars>>

AStarDrained ==
    /\ pc = "a_star"
    /\ heap = EmptyBag
    /\ a_star_result' = None
    /\ pc' = "done"
    /\ UNCHANGED <<problem, heap, cache, popped, expanded, dijkstra_result,
                   previous_result, heuristic, grid_vars, call_vars>>

AStarReturn ==
    /\ pc = "a_star"
    /\ \E e \in BagToSet(heap) :
        /\ AStarIsGreatest(e, heap)
        /\ final_predicate(problem, e.state)
        /\ heap' = HeapRemove(heap, e)
        /\ popped' = Log(popped, e.state)
        /\ a_star_result' = Some(e.state)
    /\ pc' = "done"
    /\ UNCHANGED <<problem, cache, expanded, dijkstra_result, previous_result,
                   heuristic, grid_vars, call_vars>>

AStarSkip ==
    /\ pc = "a_star"
    /\ \E e \in BagToSet(heap) :
        /\ AStarIsGreatest(e, heap)
        /\ ~final_predicate(problem, e.state)
        /\ AStarStale(cache, e.state)
        /\ heap' = HeapRemove(heap, e)
        /\ popped' = Log(popped, e.state)
    /\ UNCHANGED <<problem, pc, cache, expanded, dijkstra_result, previous_result,
                   a_star_result, heuristic, grid_vars, call_vars>>

AStarExpand ==
    /\ pc = "a_star"
    /\ \E e \in BagToSet(heap) :
        /\ AStarIsGreatest(e, heap)
        /\ ~final_predicate(problem, e.state)
        /\ ~AStarStale(cache, e.state)
        /\ LET st == AStarPushAll([cache |-> cache, heap |-> HeapRemove(heap, e)],
                                  next(problem, e.state).items)
           IN  /\ heap' = st.heap
               /\ cache' = st.cache
        /\ popped' = Log(popped, e.state)
        /\ expanded' = Log(expanded, e.state)
    /\ UNCHANGED <<problem, pc, dijkstra_result, previous_result, a_star_result,
                   heuristic, grid_vars, call_vars>>

----------------------------------------------------------------------------
(* The search specification: dijkstra, then a_star, on the same problem.   *)

Init ==
    /\ problem \in GraphProblems
    /\ pc = "dijkstra"
    /\ heap = SetToBag({StartState(problem)})
    /\ cache = <<>>
    /\ popped = <<>>
    /\ expanded = <<>>
    /\ dijkstra_result = None
    /\ previous_result = None
    /\ a_star_result = None
    /\ heuristic = None
    /\ overflow_checks = FALSE
    /\ source = None
    /\ grid = None
    /\ op = [name |-> "none"]
    /\ out = None

Next ==
    \/ DijkstraDrained
    \/ DijkstraReturn
    \/ DijkstraSkip
    \/ DijkstraExpand
    \/ DijkstraCall
    \/ AStarCall
    \/ AStarDrained
    \/ AStarReturn
    \/ AStarSkip
    \/ AStarExpand

Spec == Init /\ [][Next]_vars

FairSpec == Spec /\ WF_vars(Next)

----------------------------------------------------------------------------
(* The point specification: calls of the point and bounds API on arguments *)
(* that include the values where the casts to i32 change a number.         *)

SizeSamples == (0..MaxWidth) \cup {I32Max, I32Max + 1, 2^I32Bits + 1, UsizeMax}
PointSamples == {pt(x, y) : x \in SizeSamples, y \in SizeSamples}
BoundsSamples == {Bounds2D(w, ht) : w \in SizeSamples, ht \in SizeSamples}

SearchIdle ==
    /\ problem = [kind |-> "grid"]
    /\ pc = "idle"
    /\ heap = EmptyBag
    /\ cache = <<>>
    /\ popped = <<>>
    /\ expanded = <<>>
    /\ dijkstra_result = None
    /\ previous_result = None
    /\ a_star_result = None
    /\ heuristic = None

InitPoint ==
    /\ SearchIdle
    /\ overflow_checks \in BOOLEAN
    /\ source = None
    /\ grid = None
    /\ op = [name |-> "none"]
    /\ out = None

CallCardinalNeighbors ==
    /\ pc = "idle"
    /\ op.name = "none"
    /\ \E p \in PointSamples, b \in BoundsSamples :
        /\ op' = [name |-> "cardinal_neighbors", p |-> p, bounds |-> b]
        /\ out' = cardinal_neighbors(p, b)
    /\ UNCHANGED <<search_vars, grid_vars>>

CallIterHorizontal ==
    /\ pc = "idle"
    /\ op.name = "none"
    /\ \E b \in BoundsSamples :
        /\ op' = [name |-> "iter_horizontal", bounds |-> b]
        /\ out' = Yielded(iter_horizontal(b))
    /\ UNCHANGED <<search_vars, grid_vars>>

CallIterVertical ==
    /\ pc = "idle"
    /\ op.name = "none"
    /\ \E b \in BoundsSamples :
        /\ op' = [name |-> "iter_vertical", bounds |-> b]
        /\ out' = Yielded(iter_vertical(b))
    /\ UNCHANGED <<search_vars, grid_vars>>

NextPoint ==
    \/ CallCardinalNeighbors
    \/ CallIterHorizontal
    \/ CallIterVertical

PointSpec == InitPoint /\ [][NextPoint]_vars

----------------------------------------------------------------------------
(* The grid specification: a grid built by Grid2D::new from rows of cells  *)
(* (of equal length or not), then read.                                    *)

CellSamples == {0, 1, CellMax}
Rows == UNION {[1..w -> CellSamples] : w \in 0..MaxWidth}
Sources == UNION {[1..ht -> Rows] : ht \in 1..MaxHeight}

InitGrid ==
    /\ SearchIdle
    /\ overflow_checks \in BOOLEAN
    /\ source \in Sources
    /\ grid = Grid2DNew(source)
    /\ op = [name |-> "none"]
    /\ out = None

CallGridIndex ==
    /\ pc = "idle"
    /\ \E x \in 0..MaxWidth, y \in 0..MaxHeight :
        /\ op' = [name |-> "index", p |-> pt(x, y)]
        /\ out' = GridIndex(grid, pt(x, y))
    /\ UNCHANGED <<search_vars, grid_vars>>

CallGridIterHorizontal ==
    /\ pc = "idle"
    /\ op' = [name |-> "grid_iter_horizontal"]
    /\ out' = GridIterHorizontal(grid)
    /\ UNCHANGED <<search_vars, grid_vars>>

CallGridIterVertical ==
    /\ pc = "idle"
    /\ op' = [name |-> "grid_iter_vertical"]
    /\ out' = GridIterVertical(grid)
    /\ UNCHANGED <<search_vars, grid_vars>>

NextGrid ==
    \/ CallGridIndex
    \/ CallGridIterHorizontal
    \/ CallGridIterVertical

GridSpec == InitGrid /\ [][NextGrid]_vars

----------------------------------------------------------------------------
(* The path specification: shortest_path on such a grid, grid.rs 506-523.  *)

\* lines 507-511 and alg.rs 65-67
ShortestPathCall ==
    /\ pc = "idle"
    /\ op' = [name |-> "shortest_path"]
    /\ out' = None
    /\ heap' = SetToBag({StartState(problem)})
    /\ cache' = <<>>
    /\ popped' = <<>>
    /\ expanded' = <<>>
    /\ dijkstra_result' = None
    /\ pc' = "dijkstra"
    /\ UNCHANGED <<problem, previous_result, a_star_result, heuristic, grid_vars>>

\* lines 521-522: .map(|state| state.distance).unwrap_or_default()
ShortestPathValue(r) == IF IsSome(r) THEN Unwrap(r).distance ELSE 0

ShortestPathReturn ==
    /\ pc = "dijkstra_returned"
    /\ out' = Returned(ShortestPathValue(dijkstra_result))
    /\ pc' = "idle"
    /\ UNCHANGED <<problem, heap, cache, popped, expanded, dijkstra_result,
                   previous_result, a_star_result, heuristic, grid_vars, op>>

\* the panic leaves shortest_path
ShortestPathUnwind ==
    /\ pc = "panicked"
    /\ out' = Panicked
    /\ pc' = "idle"
    /\ UNCHANGED <<problem, heap, cache, popped, expanded, dijkstra_result,
                   previous_result, a_star_result, heuristic, grid_vars, op>>

NextPath ==
    \/ ShortestPathCall
    \/ DijkstraDrained
    \/ DijkstraReturn
    \/ DijkstraSkip
    \/ DijkstraExpand
    \/ DijkstraPanic
    \/ ShortestPathReturn
    \/ ShortestPathUnwind

\* the cells of the source data that hold T::MAX
Saturated(data) ==
    {c \in (1..MaxHeight) \X (1..MaxWidth) :
        /\ c[1] \in DOMAIN data
        /\ c[2] \in DOMAIN data[c[1]]
        /\ data[c[1]][c[2]] = CellMax}

InitPath ==
    /\ InitGrid
    /\ Cardinality(Saturated(source)) <= MaxSaturated

PathSpec == InitPath /\ [][NextPath]_vars

----------------------------------------------------------------------------
(* What a graph problem's answer is, computed from the problem alone.      *)

\* more than any walk without a repeated key can cost
Unreached == NumKeys * MaxCost + 1

\* the least cost of a walk of at most n edges from the start key to each key
RECURSIVE WalkCost(_, _)
WalkCost(p, n) ==
    IF n = 0 THEN [k \in Keys |-> IF k = cache_key(StartState(p)) THEN 0 ELSE Unreached]
    ELSE LET d == WalkCost(p, n - 1) IN
         [k \in Keys |->
            Min({d[k]} \cup
                {d[j] + Unwrap(p.w[<<j, k>>]) :
                    j \in {i \in Keys : i # k /\ IsSome(p.w[<<i, k>>])
                                        /\ d[i] < Unreached}})]

\* the least cost at which a final key can be reached, None when none can
BestFinalCost(p) ==
    LET d == WalkCost(p, NumKeys) IN
    IF \E k \in p.finals : d[k] < Unreached
    THEN Some(Min({d[k] : k \in p.finals}))
    ELSE None

\* the least number of edges of a walk from the start key to each key
RECURSIVE WalkEdges(_, _)
WalkEdges(p, n) ==
    IF n = 0 THEN [k \in Keys |-> IF k = cache_key(StartState(p)) THEN 0 ELSE NumKeys]
    ELSE LET d == WalkEdges(p, n - 1) IN
         [k \in Keys |->
            Min({d[k]} \cup
                {d[j] + 1 : j \in {i \in Keys : i # k /\ IsSome(p.w[<<i, k>>])
                                               /\ d[i] < NumKeys}})]

\* the BFS distance to the nearest final key (NumKeys: none is reachable)
BfsDistance(p) == Min({NumKeys} \cup {WalkEdges(p, NumKeys)[k] : k \in p.finals})

UnitCosts(p) == \A e \in Edges : IsSome(p.w[e]) => Unwrap(p.w[e]) = 1

\* Option<Score> of an Option<TState>
ResultCost(r) == IF IsSome(r) THEN Some(score(Unwrap(r))) ELSE None

----------------------------------------------------------------------------
(* Claims *)

C3_ReturnsFirstFinalOrDrains ==
    pc = "dijkstra_returned" =>
        /\ IsSome(dijkstra_result) =>
              /\ popped # <<>>
              /\ Unwrap(dijkstra_result) = popped[Len(popped)]
              /\ final_predicate(problem, Unwrap(dijkstra_result))
              /\ \A i \in 1..(Len(popped) - 1) : ~final_predicate(problem, popped[i])
        /\ ~IsSome(dijkstra_result) =>
              /\ heap = EmptyBag
              /\ \A i \in 1..Len(popped) : ~final_predicate(problem, popped[i])
        /\ ~IsSome(dijkstra_result) <=> ~IsSome(BestFinalCost(problem))

\* dijkstra drained the queue after expanding all three keys and skipping a
\* superseded entry
C3_Witness ==
    /\ pc = "dijkstra_returned"
    /\ ~IsSome(dijkstra_result)
    /\ Len(expanded) >= NumKeys
    /\ Len(popped) > Len(expanded)

\* what a key's cache entry can still improve by
Potential(k) == IF CacheHas(cache, k) THEN cache[k] ELSE Unreached

RECURSIVE PotentialSum(_)
PotentialSum(k) == IF k = 0 THEN 0 ELSE Potential(k) + PotentialSum(k - 1)

\* a pop takes one entry off the queue, a push adds one and lowers a key's
\* recorded cost
LoopRank == BagCardinality(heap) + 2 * PotentialSum(NumKeys)

\* the calls still to make
Stage ==
    CASE pc = "dijkstra" -> IF previous_result = None THEN 5 ELSE 3
      [] pc = "dijkstra_returned" -> IF previous_result = None THEN 4 ELSE 2
      [] pc = "a_star" -> 1
      [] OTHER -> 0

Rank == Stage * (4 * NumKeys * (Unreached + 1)) + LoopRank

\* C4: every call of dijkstra and of a_star terminates: each iteration of
\* either loop lowers a rank that is a natural number (so neither loop runs
\* forever, re-enqueued start key included), and a call that has not returned
\* always has a step to take.
C4_Terminates ==
    /\ [][Rank' < Rank]_vars
    /\ [](pc # "done" => ENABLED Next)

\* C4, directly: under FairSpec both calls return.
C4_EventuallyDone == <>(pc = "done")

\* a_star returned after the start key was enqueued a second time
C4_Witness ==
    /\ pc = "done"
    /\ \E i \in 2..Len(popped) : cache_key(popped[i]) = cache_key(StartState(problem))

ZeroOnFinals(p, hf) == \A k \in p.finals : hf[k] = 0

C6_TieOrderIndependent ==
    (pc = "dijkstra_returned" /\ IsSome(previous_result)) =>
        ResultCost(Unwrap(previous_result)) = ResultCost(dijkstra_result)

\* the two calls returned different final states of the same score
C6_Witness ==
    /\ pc = "dijkstra_returned"
    /\ IsSome(previous_result)
    /\ IsSome(dijkstra_result)
    /\ IsSome(Unwrap(previous_result))
    /\ Unwrap(Unwrap(previous_result)) # Unwrap(dijkstra_result)
    /\ score(Unwrap(dijkstra_result)) > 0

----------------------------------------------------------------------------
(* What a grid's answer is, computed from the source data alone.           *)

Rectangular(data) == \A i \in DOMAIN data : Len(data[i]) = Len(data[1])
NonEmpty(data) == Len(data) > 0 /\ Len(data[1]) > 0

CellsOf(data) == {pt(x, y) : x \in 0..(Len(data[1]) - 1), y \in 0..(Len(data) - 1)}

Adjacent(p, q) ==
    \/ p.y = q.y /\ (p.x = q.x + 1 \/ q.x = p.x + 1)
    \/ p.x = q.x /\ (p.y = q.y + 1 \/ q.y = p.y + 1)

\* more than any path without a repeated cell can cost
Unentered == MaxWidth * MaxHeight * CellMax + 1

\* the least sum of the cells entered by a path of at most n cardinal steps
\* from (0, 0) to each cell
RECURSIVE PathCost(_, _)
PathCost(data, n) ==
    IF n = 0 THEN [c \in CellsOf(data) |-> IF c = ORIGIN THEN 0 ELSE Unentered]
    ELSE LET d == PathCost(data, n - 1) IN
         [c \in CellsOf(data) |->
            Min({d[c]} \cup
                {d[q] + data[c.y + 1][c.x + 1] :
                    q \in {r \in CellsOf(data) : Adjacent(r, c) /\ d[r] < Unentered}})]

MinPathCost(data) ==
    PathCost(data, Cardinality(CellsOf(data)))[pt(Len(data[1]) - 1, Len(data) - 1)]

\* C1: on a non-empty grid of non-negative costs whose answer T can hold,
\* shortest_path returns the least sum of entered cells over the paths of
\* cardinal steps from (0, 0) to (width - 1, height - 1), the start cell
\* excluded and the target cell included.
C1_ShortestPathIsMinimum ==
    (/\ op.name = "shortest_path"
     /\ pc = "idle"
     /\ NonEmpty(source)
     /\ Rectangular(source)
     /\ CellFits(MinPathCost(source))) =>
        out = Returned(MinPathCost(source))

\* the four points one unit away from p, in the order left, right, up, down
UnitAway(p) ==
    <<[x |-> p.x - 1, y |-> p.y], [x |-> p.x + 1, y |-> p.y],
      [x |-> p.x, y |-> p.y - 1], [x |-> p.x, y |-> p.y + 1]>>

InBounds(b, q) == q.x >= 0 /\ q.y >= 0 /\ contains(b, q)

RECURSIVE Kept(_, _)
Kept(b, points) ==
    IF points = <<>> THEN <<>>
    ELSE IF InBounds(b, Head(points)) THEN <<Head(points)>> \o Kept(b, Tail(points))
    ELSE Kept(b, Tail(points))

\* C7: for every bounds b and point p contained in b, p.cardinal_neighbors(b)
\* yields, in the order left, right, up, down, exactly those of the four
\* points one unit away from p that are contained in b.
C7_CardinalNeighborsInOrder ==
    (op.name = "cardinal_neighbors" /\ contains(op.bounds, op.p)) =>
        out = Yielded(Kept(op.bounds, UnitAway(op.p)))

\* the set of the items of a sequence
Items(seq) == {seq[i] : i \in DOMAIN seq}

\* C8: for every bounds b, b.iter_horizontal() yields width * height pairwise
\* distinct points, all contained in b, in row-major order: the i-th (from 0)
\* is (i mod width, i div width); none when a dimension is zero.
C8_IterHorizontalRowMajor ==
    op.name = "iter_horizontal" =>
        LET b == op.bounds
            s == out.items
        IN  /\ ~out.panicked
            /\ Len(s) = b.width * b.height
            /\ \A i \in DOMAIN s :
                  /\ s[i] = pt((i - 1) % b.width, (i - 1) \div b.width)
                  /\ contains(b, s[i])
            /\ Cardinality(Items(s)) = Len(s)
            /\ (b.width = 0 \/ b.height = 0) => s = <<>>

\* iter_horizontal has gone through a bounds wider than high, of several rows
C8_Witness ==
    /\ op.name = "iter_horizontal"
    /\ op.bounds = Bounds2D(MaxWidth, MaxWidth - 1)
    /\ Len(out.items) = MaxWidth * (MaxWidth - 1)
    /\ out.items[MaxWidth + 1] = pt(0, 1)

\* C9: for every bounds b, b.iter_vertical() yields every point of b exactly
\* once in column-major order: the i-th (from 0) is (i div height,
\* i mod height); it is a permutation of what iter_horizontal yields.
C9_IterVerticalColumnMajor ==
    op.name = "iter_vertical" =>
        LET b == op.bounds
            s == out.items
        IN  /\ ~out.panicked
            /\ \A i \in DOMAIN s :
                  s[i] = pt((i - 1) \div b.height, (i - 1) % b.height)
            /\ Items(s) = {pt(x, y) : x \in 0..(b.width - 1), y \in 0..(b.height - 1)}
            /\ Cardinality(Items(s)) = Len(s)
            /\ Len(s) = Len(iter_horizontal(b))
            /\ Items(s) = Items(iter_horizontal(b))

\* iter_vertical has gone through a bounds wider than high, of several rows,
\* in another order than iter_horizontal
C9_Witness ==
    /\ op.name = "iter_vertical"
    /\ op.bounds = Bounds2D(MaxWidth, MaxWidth - 1)
    /\ Len(out.items) = MaxWidth * (MaxWidth - 1)
    /\ out.items[2] = pt(0, 1)
    /\ out.items # iter_horizontal(op.bounds)

\* C10: for every grid built from rows of source data and every point (x, y)
\* contained in its bounds, g[p] returns the cell at row y, column x of the
\* source, and iter_horizontal and iter_vertical go through every point of
\* the bounds and pair each with that cell.
C10_ReadsReportSourceCell ==
    /\ (op.name = "index" /\ contains(grid.bounds, op.p)) =>
          /\ op.p.x + 1 \in DOMAIN source[op.p.y + 1]
          /\ out = Returned(source[op.p.y + 1][op.p.x + 1])
    /\ op.name \in {"grid_iter_horizontal", "grid_iter_vertical"} =>
          /\ ~out.panicked
          /\ Len(out.items) = grid.bounds.width * grid.bounds.height
          /\ \A i \in DOMAIN out.items :
                LET p == out.items[i][1] IN
                /\ contains(grid.bounds, p)
                /\ p.x + 1 \in DOMAIN source[p.y + 1]
                /\ out.items[i][2] = source[p.y + 1][p.x + 1]

----------------------------------------------------------------------------
(* Grid2D: constructors and the operations that build or change a grid,    *)
(* grid.rs 411-475, 526-583.  An operation on &mut self leaves            *)
(* [grid, panicked]: the grid as the operation left it, and whether it     *)
(* panicked on the way.                                                    *)

Mutated(g) == [grid |-> g, panicked |-> FALSE]
MutatedThenPanic(g) == [grid |-> g, panicked |-> TRUE]

\* vec![value; n]
VecOf(value, n) == [i \in 1..n |-> value]

\* Vec::insert(index, element), for index <= len
VecInsert(v, index, element) ==
    SubSeq(v, 1, index) \o <<element>> \o SubSeq(v, index + 1, Len(v))

\* grid.rs 530-533
new_constant(bounds, value) ==
    [data |-> VecOf(VecOf(value, bounds.width), bounds.height), bounds |-> bounds]

\* grid.rs 535-538: Vec::insert panics when row > len
insert_row(g, row, value) ==
    IF row > Len(g.data) THEN MutatedThenPanic(g)
    ELSE Mutated([data |-> VecInsert(g.data, row, VecOf(value, g.bounds.width)),
               bounds |-> [g.bounds EXCEPT !.height = @ + 1]])

\* grid.rs 541-543: the lines from the k-th on
RECURSIVE InsertColFrom(_, _, _, _)
InsertColFrom(data, k, col, value) ==
    IF k > Len(data) THEN [data |-> data, panicked |-> FALSE]
    ELSE IF col > Len(data[k]) THEN [data |-> data, panicked |-> TRUE]
    ELSE InsertColFrom([data EXCEPT ![k] = VecInsert(@, col, value)],
                       k + 1, col, value)

\* grid.rs 540-545
insert_col(g, col, value) ==
    LET lines == InsertColFrom(g.data, 1, col, value) IN
    IF lines.panicked THEN MutatedThenPanic([g EXCEPT !.data = lines.data])
    ELSE Mutated([data |-> lines.data,
               bounds |-> [g.bounds EXCEPT !.width = @ + 1]])

\* grid.rs 371-374: whether reading every cell that cols() goes through
\* finds it
ColsPanics(g) ==
    \E col \in 0..(g.bounds.width - 1), row \in 0..(g.bounds.height - 1) :
        ~DataHas(g, pt(col, row))

\* grid.rs 547-563: each column, reversed, is a row
rotate90(g) ==
    IF ColsPanics(g) THEN Panicked
    ELSE Returned(
        [data |-> [c \in 1..g.bounds.width |->
                     [i \in 1..g.bounds.height |->
                        g.data[g.bounds.height + 1 - i][c]]],
         bounds |-> Bounds2D(g.bounds.height, g.bounds.width)])

\* grid.rs 570-582
grow_y(g, by, fill) ==
    [data |-> g.data \o VecOf(VecOf(fill, g.bounds.width), by),
     bounds |-> Bounds2D(g.bounds.width, g.bounds.height + by)]

\* grid.rs 104-118
neighbors(p, bounds) ==
    bounded_relatives(p, bounds,
        <<<<-1, -1>>, <<-1, 0>>, <<-1, 1>>, <<0, -1>>,
          <<0, 1>>, <<1, -1>>, <<1, 0>>, <<1, 1>>>>)

\* The closures a caller passes as f: each maps a point and a cell of 0..1 to
\* a cell of 0..1.  "flip" and "flip_odd" undo themselves, "zero" and "x_parity"
\* forget the cell.  ("next" and "previous", on cells of 0..2, undo each other;
\* "increment" and "reset" are the closures of the octopus step.)
Closures == {"flip", "flip_odd", "zero", "x_parity"}

Apply(f, p, v) ==
    CASE f = "flip" -> 1 - v
      [] f = "flip_odd" -> IF (p.x + p.y) % 2 = 1 THEN 1 - v ELSE v
      [] f = "zero" -> 0
      [] f = "x_parity" -> p.x % 2
      [] f = "next" -> (v + 1) % 3
      [] f = "previous" -> (v + 2) % 3
      [] f = "increment" -> v + 1
      [] f = "reset" -> IF v > 9 THEN 0 ELSE v

\* variant: no test against the bounds, Vec's own only
GridIndexMutUnchecked(g, p, v) ==
    IF ~DataHas(g, p) THEN MutatedThenPanic(g)
    ELSE Mutated([g EXCEPT !.data[p.y + 1][p.x + 1] = v])

\* grid.rs 607-613: IndexMut, reached with a value to store
GridIndexMut(g, p, v) ==
    IF p.x >= g.bounds.width \/ p.y >= g.bounds.height THEN MutatedThenPanic(g)
    ELSE IF ~DataHas(g, p) THEN MutatedThenPanic(g)
    ELSE Mutated([g EXCEPT !.data[p.y + 1][p.x + 1] = v])

\* for_each(|pt| self[pt] = f((pt, &cell of pt))) over the points an iterator
\* yields before it ends (or panics, with ends_in_panic): the cell is read,
\* f is called (calls is what it has been called with), the result is stored
RECURSIVE TransformEach(_, _, _, _, _)
TransformEach(g, f, points, calls, ends_in_panic) ==
    IF points = <<>>
    THEN [grid |-> g, calls |-> calls, panicked |-> ends_in_panic]
    ELSE LET p == Head(points) IN
         IF GridIndex(g, p).panicked
         THEN [grid |-> g, calls |-> calls, panicked |-> TRUE]
         ELSE TransformEach(
                  GridIndexMut(g, p, Apply(f, p, DataAt(g, p))).grid,
                  f, Tail(points), Append(calls, <<p, DataAt(g, p)>>),
                  ends_in_panic)

\* grid.rs 411-418
transform(g, f) == TransformEach(g, f, iter_horizontal(g.bounds), <<>>, FALSE)

\* grid.rs 420-426
transform_neighbors(g, p, f) ==
    LET it == neighbors(p, g.bounds)
    IN  TransformEach(g, f, it.items, <<>>, it.panicked)

\* grid.rs 428-434
transform_cardinal_neighbors(g, p, f) ==
    LET it == cardinal_neighbors(p, g.bounds)
    IN  TransformEach(g, f, it.items, <<>>, it.panicked)

\* grid.rs 457-475: over the rows and cells the data has
map(g, f) ==
    [bounds |-> g.bounds,
     data |-> [y \in DOMAIN g.data |->
                 [x \in DOMAIN g.data[y] |->
                     Apply(f, pt(x - 1, y - 1), g.data[y][x])]]]

----------------------------------------------------------------------------
(* Text to grid, grid.rs 691-718.  The input is given by its lines, a line *)
(* by the pieces that are parsed as cells: its characters for              *)
(* from_char_str, what split(delimiter) yields for from_delimited_str.     *)

Pieces == {"0", "1", "x"}

\* x.to_string().parse() through wrap_parse_error: Option of the cell
ParseCell(piece) ==
    CASE piece = "0" -> Some(0)
      [] piece = "1" -> Some(1)
      [] OTHER -> None

\* the inner collect() into Result<Vec<T>>: Option of the row
ParseLine(line) ==
    IF \E i \in DOMAIN line : ParseCell(line[i]) = None THEN None
    ELSE Some([i \in DOMAIN line |-> Unwrap(ParseCell(line[i]))])

\* the rows the outer collect() hands to Grid2D::new: those before the first
\* line that fails
RECURSIVE RowsBeforeError(_)
RowsBeforeError(lines) ==
    IF lines = <<>> \/ ParseLine(Head(lines)) = None THEN <<>>
    ELSE <<Unwrap(ParseLine(Head(lines)))>> \o RowsBeforeError(Tail(lines))

Ok(v) == [value |-> Some(v), panicked |-> FALSE, error |-> FALSE]
Err == [value |-> None, panicked |-> FALSE, error |-> TRUE]
Unwound == [value |-> None, panicked |-> TRUE, error |-> FALSE]

\* grid.rs 353-364 with 615-625: Grid2D::new reads data[0]
FromRows(data) == IF data = <<>> THEN Panicked ELSE Returned(Grid2DNew(data))

\* the outer collect() into Result<Grid2D<T>>: the grid is built from the rows
\* before the first error, then the error, if any, is returned in its place
FromLines(lines) ==
    IF FromRows(RowsBeforeError(lines)).panicked THEN Unwound
    ELSE IF \E i \in DOMAIN lines : ParseLine(lines[i]) = None THEN Err
    ELSE Ok(Unwrap(FromRows(RowsBeforeError(lines)).value))

\* grid.rs 697-706
from_char_str(lines) == FromLines(lines)

\* grid.rs 708-717
from_delimited_str(lines) == FromLines(lines)

----------------------------------------------------------------------------
(* The build specification: a grid comes out of a constructor and is then  *)
(* changed or rebuilt by the operations of grid.rs 411-475 and 526-583.    *)
(* A panic ends the behaviour with the grid as the operation left it.      *)

search_data == <<problem, heap, cache, popped, expanded, dijkstra_result,
                 previous_result, a_star_result, heuristic>>

BitRows == UNION {[1..w -> 0..1] : w \in 0..MaxBuilt}
BitSources == UNION {[1..ht -> BitRows] : ht \in 0..MaxBuilt}
PieceRows == UNION {[1..w -> Pieces] : w \in 0..MaxBuilt}
CharTexts == UNION {[1..n -> PieceRows] : n \in 0..MaxBuilt}
DelimitedTexts == UNION {[1..n -> PieceRows \ {<<>>}] : n \in 0..MaxBuilt}

\* the points transform_neighbors is called on: a corner, the middle of a
\* grid of MaxSide columns and rows, and a point beside such a grid
NearPoints == {ORIGIN, pt(1, 1), pt(MaxSide, 1)}
NeighborClosures == {"flip", "x_parity"}

\* the number of cells the data holds
RECURSIVE CellCount(_)
CellCount(data) ==
    IF data = <<>> THEN 0 ELSE Len(Head(data)) + CellCount(Tail(data))

\* the model's bound on growth: by rows more rows, by cols more columns
MayGrow(g, rows, cols) ==
    /\ g.bounds.height + rows <= MaxSide
    /\ g.bounds.width + cols <= MaxSide
    /\ CellCount(g.data) + rows * g.bounds.width + cols * Len(g.data) <= MaxCells

InitBuild ==
    /\ SearchIdle
    /\ overflow_checks \in BOOLEAN
    /\ source = None
    /\ grid = None
    /\ op = [name |-> "none"]
    /\ out = None

\* what a constructor's outcome leaves: the grid, or none and the panic
Constructed(outcome) ==
    /\ out' = outcome
    /\ grid' = IF IsSome(outcome.value) THEN Unwrap(outcome.value) ELSE None
    /\ pc' = IF outcome.panicked THEN "panicked" ELSE "idle"
    /\ UNCHANGED <<search_data, overflow_checks, source>>

CallNew ==
    /\ pc = "idle" /\ op.name = "none"
    /\ \E data \in BitSources :
        /\ op' = [name |-> "new", data |-> data]
        /\ Constructed(FromRows(data))

CallNewConstant ==
    /\ pc = "idle" /\ op.name = "none"
    /\ \E w \in 0..MaxBuilt, ht \in 0..MaxBuilt, value \in 0..1 :
        /\ op' = [name |-> "new_constant", bounds |-> Bounds2D(w, ht), value |-> value]
        /\ Constructed(Returned(new_constant(Bounds2D(w, ht), value)))

CallFromCharStr ==
    /\ pc = "idle" /\ op.name = "none"
    /\ \E lines \in CharTexts :
        /\ op' = [name |-> "from_char_str", lines |-> lines]
        /\ Constructed(from_char_str(lines))

CallFromDelimitedStr ==
    /\ pc = "idle" /\ op.name = "none"
    /\ \E lines \in DelimitedTexts :
        /\ op' = [name |-> "from_delimited_str", lines |-> lines]
        /\ Constructed(from_delimited_str(lines))

\* what an operation on &mut self leaves
Changed(result) ==
    /\ grid' = result.grid
    /\ pc' = IF result.panicked THEN "panicked" ELSE "idle"
    /\ UNCHANGED <<search_data, overflow_checks, source>>

\* what an operation on &self that returns a grid leaves: the behaviour goes
\* on with the returned grid
Rebuilt(outcome) ==
    /\ out' = outcome
    /\ grid' = IF outcome.panicked THEN grid ELSE Unwrap(outcome.value)
    /\ pc' = IF outcome.panicked THEN "panicked" ELSE "idle"
    /\ UNCHANGED <<search_data, overflow_checks, source>>

CallTransform ==
    /\ pc = "idle" /\ grid # None
    /\ \E f \in Closures :
        /\ op' = [name |-> "transform", f |-> f, receiver |-> grid]
        /\ out' = transform(grid, f)
        /\ Changed(transform(grid, f))

CallTransformNeighbors ==
    /\ pc = "idle" /\ grid # None
    /\ \E f \in NeighborClosures, p \in NearPoints :
        /\ op' = [name |-> "transform_neighbors", f |-> f, p |-> p, receiver |-> grid]
        /\ out' = transform_neighbors(grid, p, f)
        /\ Changed(transform_neighbors(grid, p, f))

CallTransformCardinalNeighbors ==
    /\ pc = "idle" /\ grid # None
    /\ \E f \in NeighborClosures, p \in NearPoints :
        /\ op' = [name |-> "transform_cardinal_neighbors", f |-> f, p |-> p,
                  receiver |-> grid]
        /\ out' = transform_cardinal_neighbors(grid, p, f)
        /\ Changed(transform_cardinal_neighbors(grid, p, f))

CallInsertRow ==
    /\ pc = "idle" /\ grid # None
    /\ MayGrow(grid, 1, 0)
    /\ \E row \in 0..(grid.bounds.height + 1), value \in 0..1 :
        /\ op' = [name |-> "insert_row", row |-> row, value |-> value, receiver |-> grid]
        /\ out' = insert_row(grid, row, value)
        /\ Changed(insert_row(grid, row, value))

CallInsertCol ==
    /\ pc = "idle" /\ grid # None
    /\ MayGrow(grid, 0, 1)
    /\ \E col \in 0..(grid.bounds.width + 1), value \in 0..1 :
        /\ op' = [name |-> "insert_col", col |-> col, value |-> value, receiver |-> grid]
        /\ out' = insert_col(grid, col, value)
        /\ Changed(insert_col(grid, col, value))

CallGrowY ==
    /\ pc = "idle" /\ grid # None
    /\ \E by \in {n \in 0..MaxSide : MayGrow(grid, n, 0)}, fill \in 0..1 :
        /\ op' = [name |-> "grow_y", by |-> by, fill |-> fill, receiver |-> grid]
        /\ Rebuilt(Returned(grow_y(grid, by, fill)))

CallRotate90 ==
    /\ pc = "idle" /\ grid # None
    /\ op' = [name |-> "rotate90", receiver |-> grid]
    /\ Rebuilt(rotate90(grid))

CallMap ==
    /\ pc = "idle" /\ grid # None
    /\ \E f \in Closures :
        /\ op' = [name |-> "map", f |-> f, receiver |-> grid]
        /\ Rebuilt(Returned(map(grid, f)))

NextBuild ==
    \/ CallNew
    \/ CallNewConstant
    \/ CallFromCharStr
    \/ CallFromDelimitedStr
    \/ CallTransform
    \/ CallTransformNeighbors
    \/ CallTransformCardinalNeighbors
    \/ CallInsertRow
    \/ CallInsertCol
    \/ CallGrowY
    \/ CallRotate90
    \/ CallMap

BuildSpec == InitBuild /\ [][NextBuild]_vars

\* grid.rs 346-350 as the spec states it: the data has bounds.height rows of
\* bounds.width cells
Rectangle(g) ==
    /\ Len(g.data) = g.bounds.height
    /\ \A y \in DOMAIN g.data : Len(g.data[y]) = g.bounds.width

\* C11: the grid any constructor produces, and every grid after any sequence
\* of transform, transform_neighbors, insert_row, insert_col, grow_y,
\* rotate90 and map, has exactly bounds.height rows of exactly bounds.width
\* cells.
C11_RowsAndCellsMatchBounds ==
    grid # None => Rectangle(grid)

\* the operations keep a rectangle a rectangle: a grid that is not one came
\* out of a constructor
RectangleKept ==
    [][(grid # None /\ Rectangle(grid)) => Rectangle(grid')]_vars

\* C12: from_char_str and from_delimited_str return a parse error, and no
\* grid, whenever two lines of the input produce different numbers of cells.
C12_JaggedTextIsAnError ==
    (/\ op.name \in {"from_char_str", "from_delimited_str"}
     /\ \E i, j \in DOMAIN op.lines : Len(op.lines[i]) # Len(op.lines[j])) =>
        out = Err

----------------------------------------------------------------------------
(* The access specification: one read or write of a constructed grid by    *)
(* index, row or column, grid.rs 441-455 and 585-613.                      *)

\* grid.rs 441-447: the test is made by the call, the cells are read as the
\* returned iterator goes
row(g, i) ==
    IF i >= g.bounds.height THEN Panicked
    ELSE Returned(WithCells(g, Yielded([c \in 1..g.bounds.width |-> pt(c - 1, i)])))

\* grid.rs 449-455
col(g, j) ==
    IF j >= g.bounds.width THEN Panicked
    ELSE Returned(WithCells(g, Yielded([r \in 1..g.bounds.height |-> pt(j, r - 1)])))

BuiltGrids ==
    {Grid2DNew(data) : data \in BitSources \ {<<>>}}
    \cup {new_constant(Bounds2D(w, ht), value) :
             w \in 0..MaxBuilt, ht \in 0..MaxBuilt, value \in 0..1}

InitAccess ==
    /\ SearchIdle
    /\ overflow_checks \in BOOLEAN
    /\ source = None
    /\ grid \in BuiltGrids
    /\ op = [name |-> "none"]
    /\ out = None

CallIndex ==
    /\ pc = "idle" /\ op.name = "none"
    /\ \E p \in NearPoints \cup {pt(x, y) : x \in 0..MaxBuilt, y \in 0..MaxBuilt} :
        /\ op' = [name |-> "index", p |-> p, receiver |-> grid]
        /\ out' = GridIndex(grid, p)
    /\ UNCHANGED <<search_vars, grid_vars>>

CallIndexMut ==
    /\ pc = "idle" /\ op.name = "none"
    /\ \E p \in NearPoints \cup {pt(x, y) : x \in 0..MaxBuilt, y \in 0..MaxBuilt},
          v \in 0..1 :
        /\ op' = [name |-> "index_mut", p |-> p, v |-> v, receiver |-> grid]
        /\ out' = GridIndexMut(grid, p, v)
        /\ Changed(GridIndexMut(grid, p, v))

CallRow ==
    /\ pc = "idle" /\ op.name = "none"
    /\ \E i \in 0..MaxSide :
        /\ op' = [name |-> "row", i |-> i, receiver |-> grid]
        /\ out' = row(grid, i)
    /\ UNCHANGED <<search_vars, grid_vars>>

CallCol ==
    /\ pc = "idle" /\ op.name = "none"
    /\ \E j \in 0..MaxSide :
        /\ op' = [name |-> "col", j |-> j, receiver |-> grid]
        /\ out' = col(grid, j)
    /\ UNCHANGED <<search_vars, grid_vars>>

NextAccess ==
    \/ CallIndex
    \/ CallIndexMut
    \/ CallRow
    \/ CallCol

AccessSpec == InitAccess /\ [][NextAccess]_vars

\* C13: reading or writing a grid by index with a point that has
\* x >= bounds.width or y >= bounds.height, and calling row(i) with
\* i >= height or col(j) with j >= width, panics and returns neither a cell
\* nor a sequence; the grid's cells are as they were before the call.
C13_OutOfBoundsPanics ==
    /\ (/\ op.name \in {"index", "index_mut"}
        /\ (op.p.x >= op.receiver.bounds.width \/ op.p.y >= op.receiver.bounds.height)) =>
          /\ out.panicked
          /\ grid = op.receiver
          /\ op.name = "index" => out.value = None
    /\ (op.name = "row" /\ op.i >= op.receiver.bounds.height) =>
          out = Panicked /\ grid = op.receiver
    /\ (op.name = "col" /\ op.j >= op.receiver.bounds.width) =>
          out = Panicked /\ grid = op.receiver

\* a write was refused at a point outside the bounds where the data has a cell
C13_Witness ==
    /\ op.name = "index_mut"
    /\ op.p.x >= op.receiver.bounds.width
    /\ DataHas(op.receiver, op.p)
    /\ out.panicked

\* rotate90 applied n times, each time to what the time before returned
RECURSIVE RotateTimes(_, _)
RotateTimes(g, n) ==
    IF n = 0 THEN Returned(g)
    ELSE IF rotate90(g).panicked THEN Panicked
    ELSE RotateTimes(Unwrap(rotate90(g).value), n - 1)

\* rotate90 returned a quarter turn clockwise of g, and four of them give g
QuarterTurn(g, outcome) ==
    /\ ~outcome.panicked
    /\ LET r == Unwrap(outcome.value) IN
        /\ r.bounds = Bounds2D(g.bounds.height, g.bounds.width)
        /\ \A x \in 0..(r.bounds.width - 1), y \in 0..(r.bounds.height - 1) :
              /\ DataHas(r, pt(x, y))
              /\ DataHas(g, pt(y, g.bounds.height - 1 - x))
              /\ DataAt(r, pt(x, y)) = DataAt(g, pt(y, g.bounds.height - 1 - x))
    /\ ~RotateTimes(g, 4).panicked
    /\ Unwrap(RotateTimes(g, 4).value).data = g.data

\* C14: rotate90 returns a grid with width and height swapped whose cell at
\* (x, y) is the original's cell at (y, height - 1 - x), and rotate90 applied
\* four times to any grid yields a grid equal to it.
C14_Rotate90QuarterTurn ==
    op.name = "rotate90" => QuarterTurn(op.receiver, out)

\* the same of the grids that are rectangles
Rotate90OfRectangle ==
    (op.name = "rotate90" /\ Rectangle(op.receiver)) => QuarterTurn(op.receiver, out)

\* transform(f) on g went through every cell once in row-major order and
\* left result; transform with a closure and then with its inverse restores g
EveryCellOnce(g, f, result) ==
    /\ ~result.panicked
    /\ result.grid.bounds = g.bounds
    /\ Len(result.calls) = g.bounds.width * g.bounds.height
    /\ \A i \in DOMAIN result.calls :
          LET p == pt((i - 1) % g.bounds.width, (i - 1) \div g.bounds.width) IN
          /\ DataHas(g, p)
          /\ result.calls[i] = <<p, DataAt(g, p)>>
          /\ DataAt(result.grid, p) = Apply(f, p, DataAt(g, p))
    /\ CellCount(result.grid.data) = Len(result.calls)
    /\ ~transform(g, "next").panicked
    /\ transform(transform(g, "next").grid, "previous") =
          [grid |-> g, calls |-> transform(transform(g, "next").grid, "next").calls,
           panicked |-> FALSE]

\* C15: transform(f) calls f once per cell, in row-major order, and then the
\* cell at every point p holds f(p, the value of p before the call), the
\* bounds being unchanged; transform(g) and then transform(g-inverse)
\* restores every cell.
C15_TransformEveryCellOnce ==
    op.name = "transform" => EveryCellOnce(op.receiver, op.f, out)

\* the same of the grids that are rectangles
TransformOfRectangle ==
    (op.name = "transform" /\ Rectangle(op.receiver)) =>
        EveryCellOnce(op.receiver, op.f, out)

----------------------------------------------------------------------------
(* Single steps of a point: left, right, up, down and the moves built on   *)
(* them.  Each returns Option<Point2D>, or panics where an overflow check  *)
(* of the build fails.                                                     *)

\* grid.rs 39-45
Direction == {"Up", "Left", "Right", "Down"}

\* grid.rs 120-126
left(p) == Returned(IF p.x > 0 THEN Some(pt(p.x - 1, p.y)) ELSE None)

\* grid.rs 128-134: width - 1 is computed in usize before the comparison
right(p, width) ==
    IF width = 0 /\ overflow_checks THEN Panicked
    ELSE Returned(IF p.x < AsUsize(width - 1) THEN Some(pt(p.x + 1, p.y)) ELSE None)

\* grid.rs 140-146
up(p) == Returned(IF p.y > 0 THEN Some(pt(p.x, p.y - 1)) ELSE None)

\* grid.rs 148-154: height - 1 is computed in usize before the comparison
down(p, height) ==
    IF height = 0 /\ overflow_checks THEN Panicked
    ELSE Returned(IF p.y < AsUsize(height - 1) THEN Some(pt(p.x, p.y + 1)) ELSE None)

\* grid.rs 160-167
cardinal_neighbor(p, direction, bounds) ==
    CASE direction = "Left" -> left(p)
      [] direction = "Right" -> right(p, bounds.width)
      [] direction = "Up" -> up(p)
      [] direction = "Down" -> down(p, bounds.height)

\* grid.rs 192-199
mv(p, dir, bounds) ==
    CASE dir = "Up" -> up(p)
      [] dir = "Left" -> left(p)
      [] dir = "Down" -> down(p, bounds.height)
      [] dir = "Right" -> right(p, bounds.width)

\* grid.rs 201-213: the guard of the arm of dir decides; the sums are usize
move_by(p, dir, distance, bounds) ==
    CASE dir = "Up" ->
           Returned(IF p.y >= distance THEN Some(pt(p.x, p.y - distance)) ELSE None)
      [] dir = "Left" ->
           Returned(IF p.x >= distance THEN Some(pt(p.x - distance, p.y)) ELSE None)
      [] dir = "Down" ->
           IF ~UsizeFits(p.y + distance) /\ overflow_checks THEN Panicked
           ELSE Returned(IF AsUsize(p.y + distance) < bounds.height
                         THEN Some(pt(p.x, AsUsize(p.y + distance))) ELSE None)
      [] dir = "Right" ->
           IF ~UsizeFits(p.x + distance) /\ overflow_checks THEN Panicked
           ELSE Returned(IF AsUsize(p.x + distance) < bounds.width
                         THEN Some(pt(AsUsize(p.x + distance), p.y)) ELSE None)

\* grid.rs 215-226: the coordinates and the bounds are cast to i32, both sums
\* are computed before the first comparison
move_by_delta(p, dx, dy, bounds) ==
    LET new_x == AsI32(p.x) + dx
        new_y == AsI32(p.y) + dy
    IN  IF ~(I32Fits(new_x) /\ I32Fits(new_y)) /\ overflow_checks THEN Panicked
        ELSE IF AsI32(new_x) < 0 \/ AsI32(new_x) >= AsI32(bounds.width)
             THEN Returned(None)
        ELSE IF AsI32(new_y) < 0 \/ AsI32(new_y) >= AsI32(bounds.height)
             THEN Returned(None)
        ELSE Returned(Some(pt(AsI32(new_x), AsI32(new_y))))

\* The move specification: one call of a step or a move, on coordinates,
\* limits and distances that include 0 and the ends of usize and of i32.
MoveSizes == {0, 1, 2, I32Max, 2^I32Bits + 1, UsizeMax}
MovePoints == {pt(x, y) : x \in MoveSizes, y \in MoveSizes}
MoveBounds == {Bounds2D(w, ht) : w \in MoveSizes, ht \in MoveSizes}
MoveDeltas == {I32Min, -1, 0, 1, I32Max}

InitMove == InitPoint

Uncalled == pc = "idle" /\ op.name = "none"

Moved(call, outcome) ==
    /\ op' = call
    /\ out' = outcome
    /\ UNCHANGED <<search_vars, grid_vars>>

CallLeft ==
    /\ Uncalled
    /\ \E p \in MovePoints : Moved([name |-> "left", p |-> p], left(p))

CallRight ==
    /\ Uncalled
    /\ \E p \in MovePoints, width \in MoveSizes :
           Moved([name |-> "right", p |-> p, width |-> width], right(p, width))

CallUp ==
    /\ Uncalled
    /\ \E p \in MovePoints : Moved([name |-> "up", p |-> p], up(p))

CallDown ==
    /\ Uncalled
    /\ \E p \in MovePoints, height \in MoveSizes :
           Moved([name |-> "down", p |-> p, height |-> height], down(p, height))

CallCardinalNeighbor ==
    /\ Uncalled
    /\ \E p \in MovePoints, direction \in Direction, b \in MoveBounds :
           Moved([name |-> "cardinal_neighbor", p |-> p, direction |-> direction,
                  bounds |-> b],
                 cardinal_neighbor(p, direction, b))

CallMv ==
    /\ Uncalled
    /\ \E p \in MovePoints, dir \in Direction, b \in MoveBounds :
           Moved([name |-> "mv", p |-> p, dir |-> dir, bounds |-> b], mv(p, dir, b))

CallMoveBy ==
    /\ Uncalled
    /\ \E p \in MovePoints, dir \in Direction, distance \in MoveSizes, b \in MoveBounds :
           Moved([name |-> "move_by", p |-> p, dir |-> dir, distance |-> distance,
                  bounds |-> b],
                 move_by(p, dir, distance, b))

CallMoveByDelta ==
    /\ Uncalled
    /\ \E p \in MovePoints, dx \in MoveDeltas, dy \in MoveDeltas, b \in MoveBounds :
           Moved([name |-> "move_by_delta", p |-> p, dx |-> dx, dy |-> dy, bounds |-> b],
                 move_by_delta(p, dx, dy, b))

CallMoveCardinalNeighbors ==
    /\ Uncalled
    /\ \E p \in MovePoints, b \in MoveBounds :
           Moved([name |-> "cardinal_neighbors", p |-> p, bounds |-> b],
                 cardinal_neighbors(p, b))

CallMoveNeighbors ==
    /\ Uncalled
    /\ \E p \in MovePoints, b \in MoveBounds :
           Moved([name |-> "neighbors", p |-> p, bounds |-> b], neighbors(p, b))

\* grid.rs 136-138: x + 1 in usize
right_unbounded(p) ==
    IF ~UsizeFits(p.x + 1) /\ overflow_checks THEN Panicked
    ELSE Returned(pt(AsUsize(p.x + 1), p.y))

\* grid.rs 156-158: y + 1 in usize
down_unbounded(p) ==
    IF ~UsizeFits(p.y + 1) /\ overflow_checks THEN Panicked
    ELSE Returned(pt(p.x, AsUsize(p.y + 1)))

\* grid.rs 228-240: the tests are made in this order, a panic ends them
direction_to(p, other) ==
    IF Unwrap(left(p).value) = Some(other) THEN Returned(Some("Left"))
    ELSE IF right_unbounded(p).panicked THEN Panicked
    ELSE IF right_unbounded(p).value = Some(other) THEN Returned(Some("Right"))
    ELSE IF Unwrap(up(p).value) = Some(other) THEN Returned(Some("Up"))
    ELSE IF down_unbounded(p).panicked THEN Panicked
    ELSE IF down_unbounded(p).value = Some(other) THEN Returned(Some("Down"))
    ELSE Returned(None)

CallDirectionTo ==
    /\ Uncalled
    /\ \E p \in MovePoints, other \in MovePoints :
           Moved([name |-> "direction_to", p |-> p, other |-> other],
                 direction_to(p, other))

NextMove ==
    \/ CallLeft
    \/ CallRight
    \/ CallUp
    \/ CallDown
    \/ CallCardinalNeighbor
    \/ CallMv
    \/ CallMoveBy
    \/ CallMoveByDelta
    \/ CallMoveCardinalNeighbors
    \/ CallMoveNeighbors
    \/ CallDirectionTo

MoveSpec == InitMove /\ [][NextMove]_vars

\* the points a call returned: the items of an iterator, the point of Some
PointsOf(outcome) ==
    IF outcome = None THEN {}
    ELSE IF "items" \in DOMAIN outcome THEN Items(outcome.items)
    ELSE IF IsSome(outcome.value) THEN Items(Unwrap(outcome.value))
    ELSE {}

\* the limits a call was given: right has a width only, down a height only,
\* left and up have none
TakesBounds == {"cardinal_neighbors", "neighbors", "cardinal_neighbor", "mv",
                "move_by", "move_by_delta"}

WithinLimits(call, q) ==
    /\ call.name \in TakesBounds => contains(call.bounds, q)
    /\ call.name = "right" => q.x < call.width
    /\ call.name = "down" => q.y < call.height

\* C16: for every point p, inside b or not, and every bounds b, every point
\* that an operation taking the bounds returns (cardinal_neighbors,
\* neighbors, cardinal_neighbor, mv, move_by, move_by_delta, right(width),
\* down(height)) has x < width and y < height.
C16_ReturnedPointsInBounds ==
    \A q \in PointsOf(out) : WithinLimits(op, q)

\* the same of the operations that compare both coordinates with the bounds
DeltaMovesInBounds ==
    op.name \in {"cardinal_neighbors", "neighbors", "move_by_delta"} =>
        \A q \in PointsOf(out) : contains(op.bounds, q)

\* the same of a point inside the bounds, in bounds that are not empty
MovesFromInsideInBounds ==
    (/\ op.name \in TakesBounds
     /\ contains(op.bounds, op.p)
     /\ op.name = "move_by" => UsizeFits(op.p.x + op.distance) /\ UsizeFits(op.p.y + op.distance))
        => \A q \in PointsOf(out) : contains(op.bounds, q)

\* what a single step is to return: the neighbour when present holds
StepTo(present, q) == Returned(IF present THEN Some(q) ELSE None)

SingleStep(call, outcome) ==
    LET x == call.p.x
        y == call.p.y
    IN  CASE call.name = "left" -> outcome = StepTo(x # 0, pt(x - 1, y))
          [] call.name = "up" -> outcome = StepTo(y # 0, pt(x, y - 1))
          [] call.name = "right" -> outcome = StepTo(x + 1 < call.width, pt(x + 1, y))
          [] call.name = "down" -> outcome = StepTo(y + 1 < call.height, pt(x, y + 1))
          [] OTHER -> TRUE

\* C18: for every point (x, y) and every limit, 0 included: left() is absent
\* iff x = 0 and otherwise (x-1, y); up() is absent iff y = 0 and otherwise
\* (x, y-1); right(width) is (x+1, y) iff x+1 < width and absent otherwise;
\* down(height) is (x, y+1) iff y+1 < height and absent otherwise; none of
\* them overflows or underflows.
C18_SingleStepsNeverOverflow == SingleStep(op, out)

\* the same of the limits above 0
SingleStepsWithinPositiveLimit ==
    (/\ op.name = "right" => op.width > 0
     /\ op.name = "down" => op.height > 0) => SingleStep(op, out)

----------------------------------------------------------------------------
(* 2022 day 6: find_pos scans a text for the first marker_len consecutive  *)
(* characters that are pairwise distinct.  The running call's frame is in  *)
(* out: the ring buffer, the number of characters consumed and the result. *)

MaxText == 5       \* a text has at most MaxText characters
NumChars == 3      \* drawn from the characters 1..NumChars
MaxMarker == 4     \* marker_len is 1..MaxMarker

\* aoc22-06 main.rs 10-18: the index of the first item equal to c
index_of(buffer, c) ==
    IF \E ix \in DOMAIN buffer : buffer[ix] = c
    THEN Some(Min({ix \in DOMAIN buffer : buffer[ix] = c}) - 1)
    ELSE None

\* variant: the rotation leaves the buffer as it is
rotate_left_nowhere(buffer, mid) == buffer

\* VecDeque::rotate_left: the first mid items move to the back
rotate_left(buffer, mid) ==
    SubSeq(buffer, mid + 1, Len(buffer)) \o SubSeq(buffer, 1, mid)

\* VecDeque::resize: truncated to new_len, or filled up with value
resize(buffer, new_len, value) ==
    IF new_len <= Len(buffer) THEN SubSeq(buffer, 1, new_len)
    ELSE buffer \o [i \in 1..(new_len - Len(buffer)) |-> value]

Blank == 0

\* main.rs 24-36: the buffer after the character c is taken in
Taken(buffer, c) ==
    LET found == index_of(buffer, c)
        kept == IF IsSome(found)
                THEN LET ix == Unwrap(found)
                         rotated == rotate_left(buffer, ix + 1)
                     IN  resize(rotated, Len(rotated) - ix - 1, Blank)
                ELSE buffer
    IN  Append(kept, c)

Texts == UNION {[1..n -> 1..NumChars] : n \in 0..MaxText}

InitScan ==
    /\ problem = [kind |-> "text"]
    /\ pc = "find_pos"
    /\ heap = EmptyBag
    /\ cache = <<>>
    /\ popped = <<>>
    /\ expanded = <<>>
    /\ dijkstra_result = None
    /\ previous_result = None
    /\ a_star_result = None
    /\ heuristic = None
    /\ overflow_checks \in BOOLEAN
    /\ source = None
    /\ grid = None
    /\ \E contents \in Texts, marker_len \in 1..MaxMarker :
          op = [name |-> "find_pos", contents |-> contents, marker_len |-> marker_len]
    /\ out = [buffer |-> <<>>, pos |-> 0, result |-> None]

\* main.rs 23-40: one turn of the loop, returning when the buffer is full
ScanChar ==
    /\ pc = "find_pos"
    /\ out.pos < Len(op.contents)
    /\ LET buffer == Taken(out.buffer, op.contents[out.pos + 1]) IN
        IF Len(buffer) = op.marker_len
        THEN /\ out' = [buffer |-> buffer, pos |-> out.pos,
                        result |-> Some(Ok(out.pos + 1))]
             /\ pc' = "done"
        ELSE /\ out' = [buffer |-> buffer, pos |-> out.pos + 1, result |-> None]
             /\ pc' = pc
    /\ UNCHANGED <<problem, heap, cache, popped, expanded, dijkstra_result,
                   previous_result, a_star_result, heuristic, grid_vars, op>>

\* main.rs 43: the characters ran out
ScanBail ==
    /\ pc = "find_pos"
    /\ out.pos = Len(op.contents)
    /\ out' = [out EXCEPT !.result = Some(Err)]
    /\ pc' = "done"
    /\ UNCHANGED <<problem, heap, cache, popped, expanded, dijkstra_result,
                   previous_result, a_star_result, heuristic, grid_vars, op>>

NextScan ==
    \/ ScanChar
    \/ ScanBail

ScanSpec == InitScan /\ [][NextScan]_vars

\* pairwise distinct
Distinct(seq) == \A i, j \in DOMAIN seq : seq[i] = seq[j] => i = j

\* the last m characters of seq
Suffix(seq, m) == SubSeq(seq, Len(seq) - m + 1, Len(seq))

LongestDistinctSuffix(seq) ==
    Suffix(seq, CHOOSE m \in 0..Len(seq) :
                  /\ Distinct(Suffix(seq, m))
                  /\ \A l \in (m + 1)..Len(seq) : ~Distinct(Suffix(seq, l)))

\* the k for which the marker_len characters s[k - marker_len .. k) are distinct
Markers(s, marker_len) ==
    {k \in marker_len..Len(s) : Distinct(SubSeq(s, k - marker_len + 1, k))}

\* the characters the scan has taken in so far
Consumed ==
    SubSeq(op.contents, 1, IF IsSome(out.result) /\ Unwrap(out.result) # Err
                           THEN out.pos + 1 ELSE out.pos)

\* C19: find_pos(s, n) for n >= 1 returns the smallest k such that the n
\* characters s[k-n .. k) are pairwise distinct, k counting the characters
\* consumed from 1, and an error when s has no such window; throughout the
\* scan the buffer holds pairwise distinct characters, is the longest
\* duplicate-free suffix of the consumed prefix and never has more than n
\* characters.
C19_FindPosFirstMarker ==
    op.name = "find_pos" =>
        /\ pc = "done" =>
              out.result = Some(IF Markers(op.contents, op.marker_len) = {} THEN Err
                                ELSE Ok(Min(Markers(op.contents, op.marker_len))))
        /\ Distinct(out.buffer)
        /\ out.buffer = LongestDistinctSuffix(Consumed)
        /\ Len(out.buffer) <= op.marker_len

\* a scan that dropped characters on a repeat and then found the marker
C19_Witness ==
    /\ op.name = "find_pos"
    /\ op.contents = <<1, 2, 1, 3>>
    /\ op.marker_len = 3
    /\ out.result = Some(Ok(4))
    /\ out.buffer = <<2, 1, 3>>

\* a scan that ends in the error
C19_BailWitness ==
    /\ op.name = "find_pos"
    /\ op.contents = <<1, 2, 1, 2>>
    /\ op.marker_len = 3
    /\ out.result = Some(Err)

----------------------------------------------------------------------------
(* 2021 day 18: snailfish numbers as token vectors.  plus brackets two      *)
(* numbers and reduces the sum; the running call's contents are in out.    *)

\* aoc21-18 main.rs 17-23: Token; Number(x) is the number x itself
Open == -1
Close == -2
Separator == -3
Number(x) == x
IsNumber(token) == token >= 0

ExplodeDepth == 5   \* main.rs 52
SplitAbove == 9     \* main.rs 62

\* the token at the index i of a Vec, counted from 0
At(contents, i) == contents[i + 1]

\* main.rs 46-58: the first loop of reduce_one from the index i on, depth
\* being the count so far: the index where explode is called, if any
RECURSIVE FirstTooDeep(_, _, _)
FirstTooDeep(contents, i, depth) ==
    IF i = Len(contents) THEN None
    ELSE IF At(contents, i) = Open
         THEN IF depth + 1 = ExplodeDepth THEN Some(i)
              ELSE FirstTooDeep(contents, i + 1, depth + 1)
    ELSE IF At(contents, i) = Close THEN FirstTooDeep(contents, i + 1, depth - 1)
    ELSE FirstTooDeep(contents, i + 1, depth)

\* main.rs 60-68: the second loop of reduce_one from the index i on: the
\* index where split is called, if any
RECURSIVE FirstTooBig(_, _)
FirstTooBig(contents, i) ==
    IF i = Len(contents) THEN None
    ELSE IF IsNumber(At(contents, i)) /\ At(contents, i) > SplitAbove THEN Some(i)
    ELSE FirstTooBig(contents, i + 1)

Max(S) == CHOOSE m \in S : \A n \in S : n <= m

\* Vec::splice: the items from..to-1 are replaced by with
splice(contents, from, to, with) ==
    SubSeq(contents, 1, from) \o with \o SubSeq(contents, to + 1, Len(contents))

\* main.rs 75-86: the two numbers of the pair are there
ExplodePanics(contents, pos) ==
    \/ pos + 3 >= Len(contents)
    \/ ~IsNumber(At(contents, pos + 1))
    \/ ~IsNumber(At(contents, pos + 3))

\* variant: left is added to the first number of the vector
LeftOfFarthest(contents, pos) ==
    LET numbers == {cur \in 1..(pos - 1) : IsNumber(At(contents, cur))}
    IN  IF numbers = {} THEN None ELSE Some(Min(numbers))

\* main.rs 88-96: cur walks down from pos - 1 while cur > 0
LeftOf(contents, pos) ==
    LET numbers == {cur \in 1..(pos - 1) : IsNumber(At(contents, cur))}
    IN  IF numbers = {} THEN None ELSE Some(Max(numbers))

\* main.rs 98-107: cur walks up from pos + 5
RightOf(contents, pos) ==
    LET numbers == {cur \in (pos + 5)..(Len(contents) - 1) : IsNumber(At(contents, cur))}
    IN  IF numbers = {} THEN None ELSE Some(Min(numbers))

Added(contents, target, num) ==
    IF IsSome(target)
    THEN [contents EXCEPT ![Unwrap(target) + 1] = Number(@ + num)]
    ELSE contents

\* main.rs 74-111: the vector after left was added, after right was added
\* and after the splice, each computed once
explode(contents, pos) ==
    LET l == At(contents, pos + 1)
        r == At(contents, pos + 3)
    IN  CHOOSE exploded \in
            {splice(with_right, pos, pos + 5, <<Number(0)>>) :
                with_right \in
                    {Added(with_left, RightOf(with_left, pos), r) :
                        with_left \in {Added(contents, LeftOf(contents, pos), l)}}} :
            TRUE

\* main.rs 113-128
split(contents, pos, num) ==
    LET l == num \div 2
        r == num - l
    IN  splice(contents, pos, pos + 1,
               <<Open, Number(l), Separator, Number(r), Close>>)

\* main.rs 27-33: the bracketed pair of two numbers
Bracketed(self, other) == <<Open>> \o self \o <<Separator>> \o other \o <<Close>>

\* The operands: numbers nested one pair inside the other on the left or on
\* the right, at most ExplodeDepth - 1 deep, and the operand of a test.
FishLeaves == {1, 9}

RECURSIVE LeftSpines(_)
LeftSpines(d) ==
    IF d = 0 THEN {<<Number(v)>> : v \in FishLeaves}
    ELSE {Bracketed(inner, <<Number(v)>>) : inner \in LeftSpines(d - 1), v \in FishLeaves}

RECURSIVE RightSpines(_)
RightSpines(d) ==
    IF d = 0 THEN {<<Number(v)>> : v \in FishLeaves}
    ELSE {Bracketed(<<Number(v)>>, inner) : inner \in RightSpines(d - 1), v \in FishLeaves}

\* main.rs 308: [[[[4,3],4],4],[7,[[8,4],9]]]
ComplicatedLhs ==
    Bracketed(Bracketed(Bracketed(Bracketed(<<4>>, <<3>>), <<4>>), <<4>>),
              Bracketed(<<7>>, Bracketed(Bracketed(<<8>>, <<4>>), <<9>>)))

Operands ==
    UNION {LeftSpines(d) \cup RightSpines(d) : d \in 1..(ExplodeDepth - 1)}
        \cup {ComplicatedLhs}

\* the right operands: the shallow ones and the deepest nested on the right
Addends ==
    LeftSpines(1) \cup LeftSpines(2) \cup RightSpines(2) \cup RightSpines(ExplodeDepth - 1)

InitFish ==
    /\ SearchIdle
    /\ overflow_checks = TRUE
    /\ source = None
    /\ grid = None
    /\ op = [name |-> "none"]
    /\ out = None

Reducing(contents) == [contents |-> contents]

\* main.rs 26-36: plus up to the call of reduce
CallPlus ==
    /\ Uncalled
    /\ \E self \in Operands, other \in Addends :
         /\ op' = [name |-> "plus", self |-> self, other |-> other]
         /\ out' = Reducing(Bracketed(self, other))
    /\ pc' = "reduce"
    /\ UNCHANGED <<problem, heap, cache, popped, expanded, dijkstra_result,
                   previous_result, a_star_result, heuristic, grid_vars>>

\* main.rs 43 with 48-56: reduce_one finds a pair at ExplodeDepth and explodes it
ReduceExplode ==
    /\ pc = "reduce"
    /\ \E found \in {FirstTooDeep(out.contents, 0, 0)} :
         /\ IsSome(found)
         /\ IF ExplodePanics(out.contents, Unwrap(found))
            THEN pc' = "panicked" /\ out' = out
            ELSE pc' = pc /\ out' = Reducing(explode(out.contents, Unwrap(found)))
    /\ UNCHANGED <<problem, heap, cache, popped, expanded, dijkstra_result,
                   previous_result, a_star_result, heuristic, grid_vars, op>>

\* main.rs 43 with 60-68: no such pair, reduce_one splits the first number
\* above SplitAbove
ReduceSplit ==
    /\ pc = "reduce"
    /\ FirstTooDeep(out.contents, 0, 0) = None
    /\ \E found \in {FirstTooBig(out.contents, 0)} :
         /\ IsSome(found)
         /\ out' = Reducing(split(out.contents, Unwrap(found),
                                  At(out.contents, Unwrap(found))))
    /\ UNCHANGED <<search_vars, grid_vars, op>>

\* main.rs 70 with 43 and 38: reduce_one returns false, reduce and plus return
ReduceReturn ==
    /\ pc = "reduce"
    /\ FirstTooDeep(out.contents, 0, 0) = None
    /\ FirstTooBig(out.contents, 0) = None
    /\ pc' = "done"
    /\ UNCHANGED <<problem, heap, cache, popped, expanded, dijkstra_result,
                   previous_result, a_star_result, heuristic, grid_vars, op, out>>

NextFish ==
    \/ CallPlus
    \/ ReduceExplode
    \/ ReduceSplit
    \/ ReduceReturn

FishSpec == InitFish /\ [][NextFish]_vars

\* main.rs 43: the loop of reduce keeps running once plus has called it
Reduce ==
    \/ ReduceExplode
    \/ ReduceSplit
    \/ ReduceReturn

FishFairSpec == FishSpec /\ WF_vars(Reduce)

\* the number of pairs around the token i of c (counted from 1)
Nesting(c, i) ==
    Cardinality({j \in 1..(i - 1) : c[j] = Open}) -
    Cardinality({j \in 1..(i - 1) : c[j] = Close})

\* where a pair nested inside four pairs opens; where a number above 9 is
NestedInFour(c) == {i \in DOMAIN c : c[i] = Open /\ Nesting(c, i) >= 4}
AboveNine(c) == {i \in DOMAIN c : c[i] > 9}

\* d is c with the pair [l,r] opening at i exploded: 0 in its place, l added
\* to the nearest number before it and r to the nearest number after it
ExplodedAt(c, d, i) ==
    LET before == {j \in 1..(i - 1) : c[j] >= 0}
        after == {j \in (i + 5)..Len(c) : c[j] >= 0}
    IN  /\ Len(d) = Len(c) - 4
        /\ d[i] = 0
        /\ \A j \in 1..(i - 1) :
              d[j] = c[j] + (IF before # {} /\ j = Max(before) THEN c[i + 1] ELSE 0)
        /\ \A j \in (i + 5)..Len(c) :
              d[j - 4] = c[j] + (IF after # {} /\ j = Min(after) THEN c[i + 3] ELSE 0)

\* d is c with the number at i split: half rounded down, half rounded up
SplitAt(c, d, i) ==
    /\ Len(d) = Len(c) + 4
    /\ SubSeq(d, 1, i - 1) = SubSeq(c, 1, i - 1)
    /\ SubSeq(d, i, i + 4) = <<Open, c[i] \div 2, Separator, (c[i] + 1) \div 2, Close>>
    /\ SubSeq(d, i + 5, Len(d)) = SubSeq(c, i + 1, Len(c))

\* one step of reduce does the one action that is due
ReduceStepDue ==
    pc = "reduce" =>
        LET c == out.contents IN
        IF NestedInFour(c) # {}
        THEN pc' = "reduce" /\ ExplodedAt(c, out'.contents, Min(NestedInFour(c)))
        ELSE IF AboveNine(c) # {}
        THEN pc' = "reduce" /\ SplitAt(c, out'.contents, Min(AboveNine(c)))
        ELSE pc' = "done" /\ out' = out

\* C20: reduce applies one action at a time until none applies: in each
\* step the leftmost pair nested inside four pairs is exploded if there is
\* one, and only when there is none the leftmost regular number above 9 is
\* split; for the bracketed sum of two reduced numbers the loop terminates
\* without panicking, with a number that has no pair nested inside four
\* pairs and no regular number above 9.
C20_ReduceExplodesBeforeSplitting ==
    /\ [][ReduceStepDue]_vars
    /\ [](pc # "panicked")
    /\ [](pc = "done" => NestedInFour(out.contents) = {} /\ AboveNine(out.contents) = {})
    /\ (pc = "reduce" ~> pc = "done")

\* main.rs 306-314: the sum of the test, which needs explosions and splits
C20_Witness ==
    /\ pc = "done"
    /\ op.name = "plus"
    /\ op.self = ComplicatedLhs
    /\ op.other = Bracketed(<<1>>, <<1>>)
    /\ out.contents =
         Bracketed(Bracketed(Bracketed(Bracketed(<<0>>, <<7>>), <<4>>),
                             Bracketed(Bracketed(<<7>>, <<8>>), Bracketed(<<6>>, <<0>>))),
                   Bracketed(<<8>>, <<1>>))

\* a split that made a pair nested inside four pairs, exploded in the next step
C20_SplitThenExplode ==
    /\ pc = "reduce"
    /\ NestedInFour(out.contents) # {}
    /\ AboveNine(out.contents) # {}
    /\ Min(AboveNine(out.contents)) < Min(NestedInFour(out.contents))

----------------------------------------------------------------------------
\* a grid with zero width or zero height
EmptyGrid(g) == g.bounds.width = 0 \/ g.bounds.height = 0

\* C17: shortest_path on an empty grid, one with zero width or zero height,
\* returns zero, the default value of the cost type, instead of failing.
C17_EmptyGridCostsZero ==
    (op.name = "shortest_path" /\ pc = "idle" /\ EmptyGrid(grid)) =>
        out = Returned(0)

\* the same of the build that wraps on overflow
EmptyGridCostsZeroWhenWrapping ==
    (op.name = "shortest_path" /\ pc = "idle" /\ EmptyGrid(grid) /\ ~overflow_checks) =>
        out = Returned(0)

----------------------------------------------------------------------------
(* The visited map of dijkstra, read off the heap and the popped states.   *)

\* how many times s was popped
TimesPopped(s) == Cardinality({i \in DOMAIN popped : popped[i] = s})

\* how many times s was pushed as a successor: every pushed state is on the
\* heap or was popped, and one of these is the start state
TimesPushed(s) ==
    CopiesIn(s, heap) + TimesPopped(s) - (IF s = StartState(problem) THEN 1 ELSE 0)

\* the successors pushed so far that have the key k
PushedFor(k) ==
    {s \in BagToSet(heap) \cup Items(popped) : cache_key(s) = k /\ TimesPushed(s) > 0}

\* a is a strictly better score than b: scores are Reverse<cost>
Better(a, b) == a < b

\* the visited map records, for each key, the best score pushed for it
RecordsBestPushed ==
    pc = "dijkstra" =>
        /\ DOMAIN cache = {k \in Keys : PushedFor(k) # {}}
        /\ \A k \in DOMAIN cache :
              /\ \E s \in PushedFor(k) : score(s) = cache[k]
              /\ \A s \in PushedFor(k) : ~Better(score(s), cache[k])

\* the successor n of the popped state s was pushed in this step
PushedNow(s, n) == CopiesIn(n, heap') > CopiesIn(n, HeapRemove(heap, s))

\* one turn of the loop that popped s and did not return it
TurnAsRecorded(s) ==
    LET worse == CacheHas(cache, cache_key(s)) /\ Better(cache[cache_key(s)], score(s))
        succs == Items(GraphSuccessors(problem, s, 1))
    IN  /\ (expanded' # expanded) <=> ~worse
        /\ worse => cache' = cache /\ heap' = HeapRemove(heap, s)
        /\ ~worse =>
              /\ \A n \in succs :
                    /\ PushedNow(s, n) <=>
                          (~CacheHas(cache, cache_key(n))
                             \/ Better(score(n), cache[cache_key(n)]))
                    /\ PushedNow(s, n) => cache'[cache_key(n)] = score(n)
              /\ \A n \in BagToSet(heap') : n \in succs \/ CopiesIn(n, heap') = CopiesIn(n, HeapRemove(heap, s))
        /\ \A k \in DOMAIN cache :
              k \in DOMAIN cache' /\ ~Better(cache[k], cache'[k])

DijkstraTurn ==
    (pc = "dijkstra" /\ pc' = "dijkstra" /\ popped' # popped) =>
        TurnAsRecorded(popped'[Len(popped')])

----------------------------------------------------------------------------
(* The queue and the visited map of a_star.                                *)

\* what the queue orders an entry by
Sum(e) == score(e.state) + e.heuristic

\* the entries that left the heap in this step
Departed(before, after) ==
    {e \in BagToSet(before) : CopiesIn(e, after) < CopiesIn(e, before)}

\* every entry carries h of its state as it was when enqueued; the start
\* entry carries zero
StoredHeuristics ==
    pc = "a_star" =>
        \A e \in BagToSet(heap) :
            \/ e.heuristic = heuristic[1][cache_key(e.state)]
            \/ e.state = StartState(problem) /\ e.heuristic = 0

\* one turn of the loop that popped the entry e
AStarTurnAsRecorded(e) ==
    LET s == e.state
        greater == CacheHas(cache, cache_key(s)) /\ score(s) > cache[cache_key(s)]
        rest == HeapRemove(heap, e)
        succs == Items(GraphSuccessors(problem, s, 1))
    IN  /\ \A o \in BagToSet(heap) : Sum(e) <= Sum(o)
        /\ popped' = Append(popped, s)
        /\ pc' = "a_star" =>
              /\ (expanded' = expanded) <=> greater
              /\ greater => cache' = cache /\ heap' = rest
              /\ ~greater =>
                    \A n \in succs :
                        LET entry == [state |-> n, heuristic |-> heuristic[1][cache_key(n)]]
                            enqueued == CopiesIn(entry, heap') > CopiesIn(entry, rest)
                        IN  /\ enqueued <=>
                                  (~CacheHas(cache, cache_key(n))
                                     \/ score(n) < cache[cache_key(n)])
                            /\ enqueued => cache'[cache_key(n)] = score(n)
                            /\ \A o \in BagToSet(heap') :
                                  (o.state = n /\ o # entry) => CopiesIn(o, heap') = CopiesIn(o, rest)

AStarTurn ==
    (pc = "a_star" /\ heap # EmptyBag) =>
        /\ Cardinality(Departed(heap, heap')) = 1
        /\ \A e \in Departed(heap, heap') : AStarTurnAsRecorded(e)

C22_SumDecides ==
    /\ pc = "a_star"
    /\ popped # <<>>
    /\ \E o \in BagToSet(heap) : score(o.state) < score(popped[Len(popped)])

----------------------------------------------------------------------------
\* the points of b next to p: one step away along an axis, or along a
\* diagonal too when diagonal holds
Around(p, b, diagonal) ==
    {q \in {pt(x, y) : x \in 0..(b.width - 1), y \in 0..(b.height - 1)} :
        LET dx == IF q.x > p.x THEN q.x - p.x ELSE p.x - q.x
            dy == IF q.y > p.y THEN q.y - p.y ELSE p.y - q.y
        IN  /\ q # p
            /\ dx <= 1 /\ dy <= 1
            /\ diagonal \/ dx + dy = 1}

\* the positions the rows of g have
Positions(g) ==
    {q \in {pt(x, y) : x \in 0..MaxSide, y \in 0..MaxSide} : DataHas(g, q)}

\* the call on g around p went through every neighbour once and left result
NeighboursOnce(g, p, f, diagonal, result) ==
    LET near == Around(p, g.bounds, diagonal) IN
    /\ ~result.panicked
    /\ Len(result.calls) = Cardinality(near)
    /\ \A q \in near : DataHas(g, q) /\ <<q, DataAt(g, q)>> \in Items(result.calls)
    /\ result.grid.bounds = g.bounds
    /\ Positions(result.grid) = Positions(g)
    /\ \A q \in Positions(g) :
          DataAt(result.grid, q) =
              IF q \in near THEN Apply(f, q, DataAt(g, q)) ELSE DataAt(g, q)

\* C23: transform_neighbors(p, f), and transform_cardinal_neighbors for the
\* four neighbours, calls f once for each in-bounds neighbour of p, with
\* that neighbour's value from before the call, and stores the result
\* there; the cell at p, every cell that is no neighbour of p and the
\* bounds are left as they were.
C23_NeighboursTransformedOnce ==
    /\ op.name = "transform_neighbors" =>
          NeighboursOnce(op.receiver, op.p, op.f, TRUE, out)
    /\ op.name = "transform_cardinal_neighbors" =>
          NeighboursOnce(op.receiver, op.p, op.f, FALSE, out)

\* the same of the grids that are rectangles
NeighboursOfRectangle ==
    (op.name \in {"transform_neighbors", "transform_cardinal_neighbors"}
        /\ Rectangle(op.receiver)) =>
            NeighboursOnce(op.receiver, op.p, op.f,
                           op.name = "transform_neighbors", out)

\* five neighbours changed around a point on the edge of a rectangle
NeighboursOnTheEdge ==
    /\ op.name = "transform_neighbors"
    /\ Rectangle(op.receiver)
    /\ Len(out.calls) = 5
    /\ out.grid # op.receiver

----------------------------------------------------------------------------
\* the signed offset of distance units in a direction
Offset(dir, distance) ==
    CASE dir = "Up" -> <<0, -distance>>
      [] dir = "Down" -> <<0, distance>>
      [] dir = "Left" -> <<-distance, 0>>
      [] dir = "Right" -> <<distance, 0>>

\* p moved by (dx, dy) when that point is in b, absent otherwise
Translated(p, dx, dy, b) ==
    LET q == [x |-> p.x + dx, y |-> p.y + dy]
    IN  Returned(IF InBounds(b, q) THEN Some(q) ELSE None)

MovesAsTranslated(call, outcome) ==
    /\ call.name = "move_by" =>
          LET by == Offset(call.dir, call.distance) IN
          /\ outcome = Translated(call.p, by[1], by[2], call.bounds)
          /\ I32Fits(call.distance) =>
                move_by_delta(call.p, by[1], by[2], call.bounds) = outcome
    /\ call.name = "move_by_delta" =>
          outcome = Translated(call.p, call.dx, call.dy, call.bounds)

\* C24: for every point p contained in b, direction dir and distance d,
\* move_by(dir, d, b) returns p moved d units in dir if that point is
\* contained in b and absent otherwise; move_by_delta(dx, dy, b) returns
\* (p.x+dx, p.y+dy) if that point has no negative coordinate and is
\* contained in b and absent otherwise; the two agree whenever (dx, dy) is
\* the signed offset of d units in dir.
C24_MovesAreTranslations ==
    (op.name \in {"move_by", "move_by_delta"} /\ contains(op.bounds, op.p)) =>
        MovesAsTranslated(op, out)

\* the same where the bounds fit i32 and no sum leaves usize or i32
MovesWithoutOverflow ==
    (/\ op.name \in {"move_by", "move_by_delta"}
     /\ contains(op.bounds, op.p)
     /\ I32Fits(op.bounds.width) /\ I32Fits(op.bounds.height)
     /\ op.name = "move_by" =>
           /\ I32Fits(op.distance)
           /\ I32Fits(op.p.x + op.distance) /\ I32Fits(op.p.y + op.distance)
           /\ I32Fits(op.p.x - op.distance) /\ I32Fits(op.p.y - op.distance)
     /\ op.name = "move_by_delta" =>
           I32Fits(op.p.x + op.dx) /\ I32Fits(op.p.y + op.dy))
        => MovesAsTranslated(op, out)

\* a move inside such bounds that returned a point
MovedWithoutOverflow ==
    /\ op.name = "move_by"
    /\ op.p = pt(1, 1) /\ op.dir = "Right" /\ op.distance = 1
    /\ op.bounds = Bounds2D(I32Max, 2)
    /\ out = Returned(Some(pt(2, 1)))

----------------------------------------------------------------------------
\* result is g with a row of v put in as row i (rows counted from 0)
RowInserted(g, i, v, result) ==
    /\ ~result.panicked
    /\ result.grid.bounds = Bounds2D(g.bounds.width, g.bounds.height + 1)
    /\ Len(result.grid.data) = Len(g.data) + 1
    /\ \A r \in 0..Len(g.data) :
          result.grid.data[r + 1] =
              IF r < i THEN g.data[r + 1]
              ELSE IF r = i THEN [k \in 1..g.bounds.width |-> v]
              ELSE g.data[r]

\* result is g with a column of v put in as column j (columns counted from 0)
ColInserted(g, j, v, result) ==
    /\ ~result.panicked
    /\ result.grid.bounds = Bounds2D(g.bounds.width + 1, g.bounds.height)
    /\ Len(result.grid.data) = Len(g.data)
    /\ \A r \in DOMAIN g.data :
          /\ Len(result.grid.data[r]) = Len(g.data[r]) + 1
          /\ \A c \in 0..Len(g.data[r]) :
                result.grid.data[r][c + 1] =
                    IF c < j THEN g.data[r][c + 1]
                    ELSE IF c = j THEN v
                    ELSE g.data[r][c]

LineInserted(call, result) ==
    /\ (call.name = "insert_row" /\ call.row <= call.receiver.bounds.height) =>
          RowInserted(call.receiver, call.row, call.value, result)
    /\ (call.name = "insert_col" /\ call.col <= call.receiver.bounds.width) =>
          ColInserted(call.receiver, call.col, call.value, result)

\* C25: insert_row(i, v) with i <= height makes the height one more and
\* leaves the width: the rows before i are unchanged, row i is width copies
\* of v, and every former row r >= i is now row r+1 with the same cells;
\* insert_col(j, v) with j <= width does the same for columns, making the
\* width one more and leaving the height.
C25_InsertedLineShiftsTheRest == LineInserted(op, out)

\* the same of the grids that are rectangles
InsertIntoRectangle ==
    (op.name \in {"insert_row", "insert_col"} /\ Rectangle(op.receiver)) =>
        LineInserted(op, out)

\* a column put between two columns of a rectangle of two rows
InsertedInTheMiddle ==
    /\ op.name = "insert_col"
    /\ op.receiver.data = <<<<0, 1>>, <<1, 0>>>>
    /\ op.col = 1 /\ op.value = 1
    /\ out.grid.data = <<<<0, 1, 1>>, <<1, 1, 0>>>>

----------------------------------------------------------------------------
\* the direction in which q is one unit away from p, absent when it is not
OneUnitAway(p, q) ==
    IF q.x = p.x - 1 /\ q.y = p.y THEN Some("Left")
    ELSE IF q.x = p.x + 1 /\ q.y = p.y THEN Some("Right")
    ELSE IF q.x = p.x /\ q.y = p.y - 1 THEN Some("Up")
    ELSE IF q.x = p.x /\ q.y = p.y + 1 THEN Some("Down")
    ELSE None

\* C26: for all points p and q, p.direction_to(q) returns Left iff
\* q = (p.x-1, p.y), Right iff q = (p.x+1, p.y), Up iff q = (p.x, p.y-1),
\* Down iff q = (p.x, p.y+1), and absent in every other case.
C26_DirectionToOneUnitAway ==
    op.name = "direction_to" => out = Returned(OneUnitAway(op.p, op.other))

\* the same of the points that are not on the last column or row of usize
DirectionToBelowUsizeMax ==
    (op.name = "direction_to" /\ op.p.x < UsizeMax /\ op.p.y < UsizeMax) =>
        out = Returned(OneUnitAway(op.p, op.other))

\* the four directions and an absent one are returned
DirectionsReturned ==
    /\ op.name = "direction_to"
    /\ op.p = pt(1, 1)
    /\ op.other = pt(1, 2)
    /\ out = Returned(Some("Down"))

----------------------------------------------------------------------------
\* how many of the expanded states have the key k
TimesExpanded(k) == Cardinality({i \in DOMAIN expanded : cache_key(expanded[i]) = k})

\* no successor of a state of the problem has a better score than the state
NeverBetterThanParent ==
    \A e \in Edges : IsSome(problem.w[e]) => Unwrap(problem.w[e]) >= 0

----------------------------------------------------------------------------
(* The octopus specification: step of 2021 day 11 (aoc21-11 main.rs 8-39)  *)
(* on a grid of energy levels, one action per transform and per pass of    *)
(* the flashing loop.                                                      *)

\* variant: a cell that has flashed is taken to flash again
FlashingAgain(v) == v > 9

\* main.rs 20: the cell flashes in this pass
Flashing(v) == v > 9 /\ v < 100

\* main.rs 19-26: one pass of for_each over the points; flashed is the list
\* of the points whose cell took the branch of line 20
RECURSIVE FlashEach(_, _, _)
FlashEach(g, points, flashed) ==
    IF points = <<>>
    THEN [grid |-> g, flashed |-> flashed, panicked |-> FALSE]
    ELSE LET p == Head(points) IN
         IF GridIndex(g, p).panicked
         THEN [grid |-> g, flashed |-> flashed, panicked |-> TRUE]
         ELSE IF Flashing(DataAt(g, p))
         THEN LET lit == transform_neighbors(g, p, "increment") IN
              IF lit.panicked
              THEN [grid |-> lit.grid, flashed |-> flashed, panicked |-> TRUE]
              ELSE FlashEach(
                       GridIndexMut(lit.grid, p, DataAt(lit.grid, p) + 100).grid,
                       Tail(points), Append(flashed, p))
         ELSE FlashEach(g, Tail(points), flashed)

\* main.rs 31: the calls of the last closure that count a flash
Counted(calls) == Cardinality({i \in DOMAIN calls : calls[i][2] > 9})

\* the energy levels a puzzle input holds
EnergyLevels == {0, 7, 8, 9}
Octopuses ==
    UNION {[1..ht -> UNION {[1..w -> EnergyLevels] : w \in 0..MaxWidth}] :
              ht \in 1..MaxHeight}

InitStep ==
    /\ SearchIdle
    /\ overflow_checks \in BOOLEAN
    /\ source \in Octopuses
    /\ grid = Grid2DNew(source)
    /\ op = [name |-> "none"]
    /\ out = None

\* main.rs 8-14: step is called; the first transform
CallStep ==
    /\ op.name = "none"
    /\ \E raised \in {transform(grid, "increment")} :
        /\ grid' = raised.grid
        /\ op' = [name |-> "step",
                  at |-> IF raised.panicked THEN "panicked" ELSE "flashing",
                  flashed |-> <<>>, passes |-> 0]
        /\ out' = IF raised.panicked THEN Panicked ELSE None
    /\ UNCHANGED <<search_vars, overflow_checks, source>>

\* main.rs 15-27: one turn of the while loop
Sweep ==
    /\ op.name = "step" /\ op.at = "flashing"
    /\ \E pass \in {FlashEach(grid, iter_horizontal(grid.bounds), <<>>)} :
        /\ grid' = pass.grid
        /\ op' = [op EXCEPT
                    !.at = IF pass.panicked THEN "panicked"
                           ELSE IF pass.flashed # <<>> THEN "flashing"
                           ELSE "counting",
                    !.flashed = @ \o pass.flashed,
                    !.passes = @ + 1]
        /\ out' = IF pass.panicked THEN Panicked ELSE None
    /\ UNCHANGED <<search_vars, overflow_checks, source>>

\* main.rs 29-38: the last transform, and the return
CountFlashes ==
    /\ op.name = "step" /\ op.at = "counting"
    /\ \E settled \in {transform(grid, "reset")} :
        /\ grid' = settled.grid
        /\ op' = [op EXCEPT
                    !.at = IF settled.panicked THEN "panicked" ELSE "returned"]
        /\ out' = IF settled.panicked THEN Panicked
                  ELSE Returned(Counted(settled.calls))
    /\ UNCHANGED <<search_vars, overflow_checks, source>>

NextStep ==
    \/ CallStep
    \/ Sweep
    \/ CountFlashes

StepSpec == InitStep /\ [][NextStep]_vars

\* no point occurs twice in the list
Once(seq) == \A i, j \in DOMAIN seq : i # j => seq[i] # seq[j]

\* step has returned: a cell within the bounds is 0 exactly if it flashed, a
\* cell the bounds leave out never flashed and is as it was, every cell is
\* in 0..9, and the count is the number of the cells that flashed
StepSettled ==
    (op.name = "step" /\ op.at = "returned") =>
        /\ \A p \in Positions(grid) :
              /\ DataAt(grid, p) \in 0..9
              /\ InBounds(grid.bounds, p) =>
                    (DataAt(grid, p) = 0 <=> p \in Items(op.flashed))
              /\ ~InBounds(grid.bounds, p) =>
                    /\ p \notin Items(op.flashed)
                    /\ DataAt(grid, p) = source[p.y + 1][p.x + 1]
        /\ Items(op.flashed) \subseteq Positions(grid)
        /\ out = Returned(Cardinality(Items(op.flashed)))

\* a turn of the while loop that is followed by another has made a cell flash
\* that had not flashed
TurnFlashesAnother ==
    (op.name = "step" /\ op.at = "flashing" /\ op'.at = "flashing") =>
        /\ Len(op'.flashed) > Len(op.flashed)
        /\ Once(op'.flashed)
        /\ \A i \in DOMAIN op'.flashed : InBounds(grid.bounds, op'.flashed[i])

\* the while loop has not taken more turns than the bounds hold points, and
\* one last turn without a flash
TurnsBounded ==
    op.name = "step" => op.passes <= grid.bounds.width * grid.bounds.height + 1

\* C28: in the octopus step on a grid whose cells are all in 0..9, the
\* flashing loop terminates, each cell flashes at most once per step, a cell
\* is reset to 0 exactly if it flashed during the step, every cell is in 0..9
\* when step returns, and the returned count is the number of cells that
\* flashed.
C28_StepFlashesEachCellOnce ==
    /\ [](op.name = "step" => Once(op.flashed))
    /\ []StepSettled
    /\ []TurnsBounded
    /\ [][TurnFlashesAnother]_vars

\* step returned after a cell flashed in a later pass than another, with a
\* cell that did not flash
C28_Witness ==
    /\ op.name = "step" /\ op.at = "returned"
    /\ op.passes >= 3
    /\ Len(op.flashed) >= 2
    /\ \E p \in Positions(grid) : InBounds(grid.bounds, p) /\ DataAt(grid, p) # 0

\* step returned from a grid with a row longer than the first
C28_LongerRow ==
    /\ op.name = "step" /\ op.at = "returned"
    /\ op.flashed # <<>>
    /\ \E p \in Positions(grid) : ~InBounds(grid.bounds, p)

====
